---- MODULE Spec2Model ----
(***************************************************************************)
(* A model of exrandom: exact sampling with lazily drawn base-b digits.    *)
(*                                                                         *)
(* Random digits are the only input of the library.  Every operation is a  *)
(* function of the objects it is applied to and of the digits the digit    *)
(* source delivers while it runs.  An operation is therefore modelled as   *)
(* an operator that takes the digits still to be delivered (a finite       *)
(* sequence t, the "tape") and returns the new objects, the digits left    *)
(* over and a flag ok, FALSE when the operation asked for a digit after    *)
(* the tape was used up.  An action applies an operation to every tape     *)
(* that the operation consumes exactly and completely (ValidTapes), i.e.   *)
(* to every sequence of digits the source can deliver during that one      *)
(* call, up to a bounded number of digits.                                 *)
(***************************************************************************)
EXTENDS Integers, Sequences, FiniteSets, TLC

VARIABLES
  b,      \* the base of the digit source (digit_gen::base)
  ur,     \* the u-rands in use: name -> [s, n, d]
  h,      \* the i-rand in use: [a, d, l]
  pc,     \* position of the running sampler (generate)
  loc,    \* the locals of the running sampler
  par,    \* the parameters of the sampler in use, template parameters included
  last    \* observation of the last operation: its arguments, digits, result

vars == <<b, ur, h, pc, loc, par, last>>

(***************************************************************************)
(* Bounds of the model.                                                    *)
(***************************************************************************)
MaxDigits == 2     \* fraction digits a u-rand may hold
MaxDraw == 3       \* digits one u-rand operation may draw
MaxInt == 1        \* largest integer part given to set_integer
MaxNum == 2        \* largest |u1|, |u2| given to compare
MaxDen == 2        \* largest v given to compare
Bases == {2, 3}

RECURSIVE Pow(_, _)
Pow(base, e) == IF e <= 0 THEN 1 ELSE base * Pow(base, e - 1)

\* the value of F at the value v, v being computed once
Only(S) == CHOOSE e \in S : TRUE
Let(v, F(_)) == Only({F(e) : e \in {v}})

RECURSIVE TapesOfLen(_, _)
TapesOfLen(base, len) ==
  IF len = 0 THEN {<<>>}
  ELSE {<<dg>> \o t : dg \in 0..(base - 1), t \in TapesOfLen(base, len - 1)}

\* The digit sequences of at most Len(t) + fuel digits that extend t and that
\* operation Op consumes exactly: Op asks for one digit at a time, so the
\* sequences it starves on are extended by every digit of the base.
RECURSIVE ValidTapes(_, _, _, _)
ValidTapes(base, Op(_), t, fuel) ==
  Let(Op(t), LAMBDA r :
    IF r.ok THEN (IF r.t = <<>> THEN {t} ELSE {})
    ELSE IF fuel = 0 THEN {}
    ELSE UNION {ValidTapes(base, Op, tt, fuel - 1) :
                  tt \in {Append(t, dg) : dg \in 0..(base - 1)}})

\* the digit sequences of each length, per base
DigitTapes == [base \in Bases |-> [len \in 0..MaxDigits |-> TapesOfLen(base, len)]]

Max2(p, q) == IF p >= q THEN p ELSE q
Min2(p, q) == IF p <= q THEN p ELSE q

(***************************************************************************)
(* C++ integer division and remainder (truncation toward zero).            *)
(***************************************************************************)
CDiv(p, q) ==
  IF (p >= 0) = (q > 0) THEN (IF p >= 0 THEN p ELSE -p) \div (IF q > 0 THEN q ELSE -q)
  ELSE -((IF p >= 0 THEN p ELSE -p) \div (IF q > 0 THEN q ELSE -q))
CMod(p, q) == p - CDiv(p, q) * q

Idle == [op |-> "none"]

(***************************************************************************)
(* u_rand                                                                  *)
(***************************************************************************)
\* u_rand::u_rand / u_rand::init: s = +1, n = 0, no digits
u_rand_init == [s |-> 1, n |-> 0, d |-> <<>>]

\* u_rand::negate
u_rand_negate(u) == [u EXCEPT !.s = -u.s]

\* u_rand::set_integer
u_rand_set_integer(u, n) == [u EXCEPT !.n = n]

\* u_rand::digit(g, k): draw the digits missing up to position k, return d_k.
\* A draw on an empty tape fails (ok = FALSE); the digits pushed before the
\* failing draw stay.
u_rand_digit(u, k, t) ==
  LET need == IF Len(u.d) > k THEN 0 ELSE k + 1 - Len(u.d) IN
  IF need > Len(t)
  THEN [u |-> [u EXCEPT !.d = u.d \o t], t |-> <<>>, ok |-> FALSE, val |-> 0]
  ELSE Let([u EXCEPT !.d = u.d \o SubSeq(t, 1, need)], LAMBDA u2 :
         [u |-> u2, t |-> SubSeq(t, need + 1, Len(t)), ok |-> TRUE,
          val |-> u2.d[k + 1]])

\* the loop of u_rand::less_than(g, t): digit k of *this, then digit k of t
RECURSIVE u_rand_less_than_loop(_, _, _, _)
u_rand_less_than_loop(u, v, t, k) ==
  Let(u_rand_digit(u, k, t), LAMBDA ra :
  IF ~ra.ok THEN [u |-> ra.u, v |-> v, t |-> <<>>, ok |-> FALSE, ret |-> FALSE]
  ELSE
    Let(u_rand_digit(v, k, ra.t), LAMBDA rb :
    IF ~rb.ok THEN [u |-> ra.u, v |-> rb.u, t |-> <<>>, ok |-> FALSE, ret |-> FALSE]
    ELSE IF ra.val # rb.val
      THEN [u |-> ra.u, v |-> rb.u, t |-> rb.t, ok |-> TRUE,
            ret |-> ((u.s < 0) # (ra.val < rb.val))]
      ELSE u_rand_less_than_loop(ra.u, rb.u, rb.t, k + 1)))

\* mutant: the order is not flipped for negative u-rands
u_rand_less_than_noflip(u, v, same, t) ==
  IF same THEN [u |-> u, v |-> v, t |-> t, ok |-> TRUE, ret |-> FALSE]
  ELSE IF u.s # v.s THEN [u |-> u, v |-> v, t |-> t, ok |-> TRUE, ret |-> (u.s < v.s)]
  ELSE IF u.n # v.n
    THEN [u |-> u, v |-> v, t |-> t, ok |-> TRUE, ret |-> (u.n < v.n)]
  ELSE u_rand_less_than_loop(u, v, t, 0)

\* u_rand::less_than(g, t); same is (this == &t)
u_rand_less_than(u, v, same, t) ==
  IF same THEN [u |-> u, v |-> v, t |-> t, ok |-> TRUE, ret |-> FALSE]
  ELSE IF u.s # v.s THEN [u |-> u, v |-> v, t |-> t, ok |-> TRUE, ret |-> (u.s < v.s)]
  ELSE IF u.n # v.n
    THEN [u |-> u, v |-> v, t |-> t, ok |-> TRUE, ret |-> ((u.s < 0) # (u.n < v.n))]
  ELSE u_rand_less_than_loop(u, v, t, 0)

\* the loop of u_rand::compare: u1, u2 reduced modulo v digit by digit
RECURSIVE u_rand_compare_loop(_, _, _, _, _, _, _)
u_rand_compare_loop(base, u, u1, u2, v, t, k) ==
  IF u1 >= v THEN [u |-> u, t |-> t, ok |-> TRUE, ret |-> -u.s]
  ELSE IF u2 <= 0 THEN [u |-> u, t |-> t, ok |-> TRUE, ret |-> u.s]
  ELSE IF u1 <= 0 /\ u2 >= v THEN [u |-> u, t |-> t, ok |-> TRUE, ret |-> 0]
  ELSE
    Let(u_rand_digit(u, k, t), LAMBDA r :
    IF ~r.ok THEN [u |-> r.u, t |-> <<>>, ok |-> FALSE, ret |-> 0]
    ELSE Let(<<Max2(0, u1 * base - r.val * v), Min2(v, u2 * base - r.val * v)>>,
             LAMBDA w : u_rand_compare_loop(base, r.u, w[1], w[2], v, r.t, k + 1)))

\* u_rand::compare(g, u1, u2, v)
u_rand_compare(base, u, u1, u2, v, t) ==
  u_rand_compare_loop(base, u, Max2(0, u.s * u1 - u.n * v), Min2(v, u.s * u2 - u.n * v),
                      v, t, 0)

(***************************************************************************)
(* The real interval a u-rand denotes, as exact rationals over b^K.        *)
(***************************************************************************)
RECURSIVE DigitsValue(_, _)
DigitsValue(d, base) ==
  IF d = <<>> THEN 0
  ELSE DigitsValue(SubSeq(d, 1, Len(d) - 1), base) * base + d[Len(d)]

UDen(u) == Pow(b, Len(u.d))
\* |x| lies strictly between MagLo/UDen and MagHi/UDen
MagLo(u) == u.n * UDen(u) + DigitsValue(u.d, b)
MagHi(u) == MagLo(u) + 1
\* x lies strictly between ULo/UDen and UHi/UDen
ULo(u) == IF u.s > 0 THEN MagLo(u) ELSE -MagHi(u)
UHi(u) == IF u.s > 0 THEN MagHi(u) ELSE -MagLo(u)

IsPrefix(p, q) == Len(p) <= Len(q) /\ SubSeq(q, 1, Len(p)) = p

\* the digits less_than draws up to position k: at each position the digit
\* x lacks, then the digit y lacks
RECURSIVE DrawOrder(_, _, _, _, _)
DrawOrder(px, py, qx, qy, k) ==
  IF k < 0 THEN <<>>
  ELSE DrawOrder(px, py, qx, qy, k - 1)
       \o (IF k >= Len(px.d) THEN <<qx.d[k + 1]>> ELSE <<>>)
       \o (IF k >= Len(py.d) THEN <<qy.d[k + 1]>> ELSE <<>>)

\* C1: x.less_than(g, y) on two distinct u-rands returns s_x < s_y when the
\* signs differ, else (n_x < n_y) XOR (s < 0) when the integer parts differ,
\* else (d_k(x) < d_k(y)) XOR (s < 0) at the first position k where the
\* digits differ; the digits drawn are exactly the missing digits of
\* positions 0..k, x's before y's at each position, and none beyond k.
\* x.less_than(g, x) returns false and draws nothing.
C1_LessThanLexicographic ==
  last.op = "less_than" =>
    LET px == last.pre[last.w1]
        py == last.pre[last.w2]
        qx == ur[last.w1]
        qy == ur[last.w2]
    IN
    IF last.w1 = last.w2
    THEN last.ret = FALSE /\ last.drawn = <<>> /\ ur = last.pre
    ELSE IF px.s # py.s
    THEN last.ret = (px.s < py.s) /\ last.drawn = <<>> /\ ur = last.pre
    ELSE IF px.n # py.n
    THEN /\ last.ret = ((px.n < py.n) # (px.s < 0))
         /\ last.drawn = <<>> /\ ur = last.pre
    ELSE \E k \in 0..(Len(qx.d) - 1) :
           /\ Len(qy.d) > k
           /\ \A i \in 1..k : qx.d[i] = qy.d[i]
           /\ qx.d[k + 1] # qy.d[k + 1]
           /\ last.ret = ((qx.d[k + 1] < qy.d[k + 1]) # (px.s < 0))
           /\ qx.s = px.s /\ qx.n = px.n /\ IsPrefix(px.d, qx.d)
           /\ qy.s = py.s /\ qy.n = py.n /\ IsPrefix(py.d, qy.d)
           /\ Len(qx.d) = Max2(Len(px.d), k + 1)
           /\ Len(qy.d) = Max2(Len(py.d), k + 1)
           /\ last.drawn = DrawOrder(px, py, qx, qy, k)

\* C1 witness: two negative u-rands with equal integer parts, compared on
\* digits drawn during the call at two positions, and found in order
C1_Witness ==
  /\ last.op = "less_than" /\ last.w1 # last.w2
  /\ ur[last.w1].s = -1 /\ ur[last.w2].s = -1
  /\ ur[last.w1].n = ur[last.w2].n
  /\ Len(last.drawn) >= 3
  /\ last.ret = TRUE

\* C2 (the claim as stated): for v > 0 and u1 < u2 compare returns -sign(x)
\* if x < u1/v, +sign(x) if x > u2/v and 0 if u1/v <= |x| <= u2/v, for every
\* real x of the interval the u-rand denotes when compare returns, whatever
\* the sign and the integer part.
C2_CompareEitherSign ==
  last.op = "compare" =>
    LET u == ur[last.w]
        den == UDen(u)
    IN
    /\ (ULo(u) * last.v < last.u1 * den) => last.ret = -u.s
    /\ (UHi(u) * last.v > last.u2 * den) => last.ret = u.s
    /\ (MagLo(u) * last.v < last.u2 * den /\ MagHi(u) * last.v > last.u1 * den)
         => last.ret = 0

\* The same statement restricted to u-rands of sign +1 (any integer part);
\* it holds, see C2.
CompareNonNegative ==
  (last.op = "compare" /\ ur[last.w].s = 1) => C2_CompareEitherSign

(***************************************************************************)
(* The u-rand machine: two u-rands x and y sharing one digit source.       *)
(***************************************************************************)
UNames == {"x", "y"}

Init ==
  /\ b \in Bases
  /\ ur = [w \in UNames |-> u_rand_init]
  /\ h = [a |-> 0, d |-> 1, l |-> 0]
  /\ pc = "idle"
  /\ loc = <<>>
  /\ par = <<>>
  /\ last = Idle

UInit(w) ==
  /\ last = Idle
  /\ ur' = [ur EXCEPT ![w] = u_rand_init]
  /\ last' = Idle
  /\ UNCHANGED <<b, h, pc, loc, par>>

UNegate(w) ==
  /\ last = Idle
  /\ ur' = [ur EXCEPT ![w] = u_rand_negate(ur[w])]
  /\ last' = Idle
  /\ UNCHANGED <<b, h, pc, loc, par>>

USetInteger(w) ==
  /\ last = Idle
  /\ \E n \in 0..MaxInt :
       /\ ur' = [ur EXCEPT ![w] = u_rand_set_integer(ur[w], n)]
       /\ last' = Idle
       /\ UNCHANGED <<b, h, pc, loc, par>>

UDigit(w) ==
  /\ last = Idle
  /\ \E k \in 0..(MaxDigits - 1) :
     \E t \in DigitTapes[b][Max2(0, k + 1 - Len(ur[w].d))] :
       LET r == u_rand_digit(ur[w], k, t) IN
       /\ r.ok /\ r.t = <<>>
       /\ ur' = [ur EXCEPT ![w] = r.u]
       /\ last' = Idle
       /\ UNCHANGED <<b, h, pc, loc, par>>

ULessThan(w1, w2) ==
  /\ last = Idle
  /\ \E t \in ValidTapes(b, LAMBDA tt : u_rand_less_than(ur[w1], ur[w2], w1 = w2, tt),
                          <<>>, MaxDraw) :
       LET r == u_rand_less_than(ur[w1], ur[w2], w1 = w2, t) IN
       /\ r.ok /\ r.t = <<>>
       /\ Len(r.u.d) <= MaxDigits /\ Len(r.v.d) <= MaxDigits
       /\ ur' = IF w1 = w2 THEN ur ELSE [ur EXCEPT ![w1] = r.u, ![w2] = r.v]
       /\ last' = [op |-> "less_than", w1 |-> w1, w2 |-> w2, pre |-> ur,
                   drawn |-> t, ret |-> r.ret]
       /\ UNCHANGED <<b, h, pc, loc, par>>

UCompare(w) ==
  /\ last = Idle
  /\ \E v \in 1..MaxDen, u1 \in (-MaxNum)..MaxNum, u2 \in (-MaxNum)..MaxNum :
     \E t \in ValidTapes(b, LAMBDA tt : u_rand_compare(b, ur[w], u1, u2, v, tt),
                          <<>>, MaxDraw) :
       LET r == u_rand_compare(b, ur[w], u1, u2, v, t) IN
       /\ u1 < u2
       /\ r.ok /\ r.t = <<>>
       /\ Len(r.u.d) <= MaxDigits
       /\ ur' = [ur EXCEPT ![w] = r.u]
       /\ last' = [op |-> "compare", w |-> w, u1 |-> u1, u2 |-> u2, v |-> v,
                   pre |-> ur, drawn |-> t, ret |-> r.ret]
       /\ UNCHANGED <<b, h, pc, loc, par>>

\* the caller takes the result of the last operation
Return ==
  /\ last # Idle
  /\ last' = Idle
  /\ UNCHANGED <<b, ur, h, pc, loc, par>>

Next ==
  \/ \E w \in UNames : UInit(w)
  \/ \E w \in UNames : UNegate(w)
  \/ \E w \in UNames : USetInteger(w)
  \/ \E w \in UNames : UDigit(w)
  \/ \E w1 \in UNames, w2 \in UNames : ULessThan(w1, w2)
  \/ Return

Spec == Init /\ [][Next]_vars

\* the u-rand machine with the rational comparison, on one u-rand
NextCompare ==
  \/ UInit("x")
  \/ UNegate("x")
  \/ USetInteger("x")
  \/ UDigit("x")
  \/ UCompare("x")
  \/ Return

SpecCompare == Init /\ [][NextCompare]_vars

(***************************************************************************)
(* i_rand                                                                  *)
(***************************************************************************)
MaxM == 9          \* largest m given to i_rand::init
MaxIDraw == 4      \* digits one i-rand operation may draw
MaxA == 10         \* largest |_a| the i-rand machine lets add and negate reach
MaxFrac == 2       \* largest denominator n given to the rational comparisons

\* i_rand::i_rand: the integer 0
i_rand_construct == [a |-> 0, d |-> 1, l |-> 0]

i_rand_min(hh) == hh.a
i_rand_max(hh) == hh.a + hh.d - 1
\* i_rand::negate
i_rand_negate(hh) == [hh EXCEPT !.a = -i_rand_max(hh)]
\* i_rand::add
i_rand_add(hh, c) == [hh EXCEPT !.a = hh.a + c]

\* mutant: the span is not divided by the base
i_rand_refine_keepspan(base, hh, t) ==
  IF hh.l > 0
  THEN IF t = <<>> THEN [h |-> [hh EXCEPT !.l = hh.l - 1], t |-> <<>>, ok |-> FALSE]
       ELSE [h |-> [a |-> hh.a + Head(t) * CDiv(hh.d, base), d |-> hh.d,
                    l |-> hh.l - 1],
             t |-> Tail(t), ok |-> TRUE]
  ELSE [h |-> hh, t |-> t, ok |-> TRUE]

\* i_rand::refine: if (_l > 0) { --_l; _d /= b; _a += _D(g) * _d; }
i_rand_refine(base, hh, t) ==
  IF hh.l > 0
  THEN IF t = <<>>
       THEN [h |-> [hh EXCEPT !.l = hh.l - 1, !.d = CDiv(hh.d, base)],
             t |-> <<>>, ok |-> FALSE]
       ELSE [h |-> [a |-> hh.a + Head(t) * CDiv(hh.d, base), d |-> CDiv(hh.d, base),
                    l |-> hh.l - 1],
             t |-> Tail(t), ok |-> TRUE]
  ELSE [h |-> hh, t |-> t, ok |-> TRUE]

\* i_rand::operator(): while (_l) refine(g); return _a;
RECURSIVE i_rand_call(_, _, _)
i_rand_call(base, hh, t) ==
  IF hh.l # 0
  THEN Let(i_rand_refine(base, hh, t), LAMBDA r :
         IF ~r.ok THEN [h |-> r.h, t |-> <<>>, ok |-> FALSE, ret |-> 0]
         ELSE i_rand_call(base, r.h, r.t))
  ELSE [h |-> hh, t |-> t, ok |-> TRUE, ret |-> hh.a]

\* mutant: the range is returned as soon as its lower end is
RECURSIVE i_rand_init_inner_lower(_, _, _, _, _, _)
i_rand_init_inner_lower(base, m, w, a, d, l) ==
  IF w >= m
  THEN LET j == CDiv(a, m) * m IN
       IF w - j >= m
       THEN [found |-> TRUE, a |-> a - j, d |-> d, l |-> l]
       ELSE Let(<<(w - j) * base, (a - j) * base, d * base>>, LAMBDA n :
              i_rand_init_inner_lower(base, m, n[1], n[2], n[3], l + 1))
  ELSE Let(<<w * base, a * base, d * base>>, LAMBDA n :
         i_rand_init_inner_lower(base, m, n[1], n[2], n[3], l + 1))

\* The inner loop of i_rand::init: Lumbroso's algorithm played without digits
\* on the range [a, a + d) with w in the role of v; found when both ends of
\* the range are returned at the same time.
RECURSIVE i_rand_init_inner(_, _, _, _, _, _)
i_rand_init_inner(base, m, w, a, d, l) ==
  IF w >= m
  THEN LET j == CDiv(a, m) * m IN
       IF w - j >= m
       THEN [found |-> (a - j + d <= m), a |-> a - j, d |-> d, l |-> l]
       ELSE Let(<<(w - j) * base, (a - j) * base, d * base>>, LAMBDA n :
              i_rand_init_inner(base, m, n[1], n[2], n[3], l + 1))
  ELSE Let(<<w * base, a * base, d * base>>, LAMBDA n :
         i_rand_init_inner(base, m, n[1], n[2], n[3], l + 1))

\* The outer loop of i_rand::init on (v, c).  When the digit source fails, _a
\* and _d are as before the call and _l is what the inner loop left.
RECURSIVE i_rand_init_loop(_, _, _, _, _, _)
i_rand_init_loop(base, hh, m, v, c, t) ==
  Let(i_rand_init_inner(base, m, v, c, 1, 0), LAMBDA r :
  IF r.found
  THEN [h |-> [a |-> r.a, d |-> r.d, l |-> r.l], t |-> t, ok |-> TRUE, v |-> v, c |-> c]
  ELSE LET j == CDiv(v, m) * m IN
       IF t = <<>>
       THEN [h |-> [hh EXCEPT !.l = r.l], t |-> <<>>, ok |-> FALSE,
             v |-> v - j, c |-> c - j]
       ELSE Let(<<(v - j) * base, (c - j) * base + Head(t)>>, LAMBDA n :
              i_rand_init_loop(base, hh, m, n[1], n[2], Tail(t))))

\* mutant: m <= 0 is not replaced by 1 and the range may end at m
i_rand_init_offbyone(base, hh, m, t) ==
  IF m <= 0 THEN [h |-> [a |-> 0, d |-> 1, l |-> 1], t |-> t, ok |-> TRUE, v |-> 1, c |-> 0]
  ELSE i_rand_init_loop(base, hh, m + 1, 1, 0, t)

\* i_rand::init(g, m)
i_rand_init(base, hh, m, t) ==
  i_rand_init_loop(base, hh, IF m <= 0 THEN 1 ELSE m, 1, 0, t)

\* i_rand::less_than(g, m, n)
RECURSIVE i_rand_less_than(_, _, _, _, _)
i_rand_less_than(base, hh, m, n, t) ==
  IF n * i_rand_max(hh) < m THEN [h |-> hh, t |-> t, ok |-> TRUE, ret |-> TRUE]
  ELSE IF ~(n * i_rand_min(hh) < m) THEN [h |-> hh, t |-> t, ok |-> TRUE, ret |-> FALSE]
  ELSE Let(i_rand_refine(base, hh, t), LAMBDA r :
         IF ~r.ok \/ hh.l = 0 THEN [h |-> r.h, t |-> <<>>, ok |-> FALSE, ret |-> FALSE]
         ELSE i_rand_less_than(base, r.h, m, n, r.t))

Not(r) == [r EXCEPT !.ret = ~r.ret]
\* mutant: less_than_equal tests *this < m/n
i_rand_less_than_equal_strict(base, hh, m, n, t) == i_rand_less_than(base, hh, m, n, t)
\* i_rand::less_than_equal
i_rand_less_than_equal(base, hh, m, n, t) == i_rand_less_than(base, hh, m + 1, n, t)
\* i_rand::greater_than
i_rand_greater_than(base, hh, m, n, t) == Not(i_rand_less_than_equal(base, hh, m, n, t))
\* i_rand::greater_than_equal
i_rand_greater_than_equal(base, hh, m, n, t) == Not(i_rand_less_than(base, hh, m, n, t))

(***************************************************************************)
(* The i-rand machine: one i-rand and every operation of its interface.    *)
(***************************************************************************)
\* The runs of init(g, m) from a fresh i-rand, per base and m: a run that
\* returns does not read the i-rand's previous fields.
IRandInitRuns ==
  [base \in Bases |-> [m \in (-1)..MaxM |->
    {[t |-> t, r |-> i_rand_init(base, i_rand_construct, m, t)] :
       t \in ValidTapes(base, LAMBDA tt : i_rand_init(base, i_rand_construct, m, tt),
                        <<>>, MaxIDraw)}]]

IInit ==
  \E m \in (-1)..MaxM :
  \E run \in IRandInitRuns[b][m] :
    /\ last = Idle
    /\ h' = run.r.h
    /\ last' = [op |-> "init", m |-> m, pre |-> h, drawn |-> run.t]
    /\ UNCHANGED <<b, ur, pc, loc, par>>

IRefine ==
  /\ last = Idle
  /\ \E t \in ValidTapes(b, LAMBDA tt : i_rand_refine(b, h, tt), <<>>, MaxIDraw) :
       /\ h' = i_rand_refine(b, h, t).h
       /\ last' = [op |-> "refine", pre |-> h, drawn |-> t]
       /\ UNCHANGED <<b, ur, pc, loc, par>>

ICall ==
  /\ last = Idle
  /\ \E t \in ValidTapes(b, LAMBDA tt : i_rand_call(b, h, tt), <<>>, MaxIDraw) :
       LET r == i_rand_call(b, h, t) IN
       /\ h' = r.h
       /\ last' = [op |-> "call", pre |-> h, drawn |-> t, ret |-> r.ret]
       /\ UNCHANGED <<b, ur, pc, loc, par>>

INegate ==
  /\ last = Idle
  /\ h' = i_rand_negate(h)
  /\ last' = [op |-> "negate", pre |-> h, drawn |-> <<>>]
  /\ UNCHANGED <<b, ur, pc, loc, par>>

IAdd ==
  /\ last = Idle
  /\ \E c \in (-MaxA)..MaxA :
       /\ i_rand_min(i_rand_add(h, c)) >= -MaxA
       /\ i_rand_max(i_rand_add(h, c)) <= MaxA
       /\ h' = i_rand_add(h, c)
       /\ last' = [op |-> "add", c |-> c, pre |-> h, drawn |-> <<>>]
       /\ UNCHANGED <<b, ur, pc, loc, par>>

ICompare(name, Op(_, _, _, _, _)) ==
  /\ last = Idle
  /\ \E n \in 1..MaxFrac, m \in (-MaxA * MaxFrac)..(MaxA * MaxFrac) :
     \E t \in ValidTapes(b, LAMBDA tt : Op(b, h, m, n, tt), <<>>, MaxIDraw) :
       LET r == Op(b, h, m, n, t) IN
       /\ h' = r.h
       /\ last' = [op |-> name, m |-> m, n |-> n, pre |-> h, drawn |-> t, ret |-> r.ret]
       /\ UNCHANGED <<b, ur, pc, loc, par>>

ILessThan == ICompare("less_than", i_rand_less_than)
ILessThanEqual == ICompare("less_than_equal", i_rand_less_than_equal)
IGreaterThan == ICompare("greater_than", i_rand_greater_than)
IGreaterThanEqual == ICompare("greater_than_equal", i_rand_greater_than_equal)

InitIRand ==
  /\ b \in Bases
  /\ ur = [w \in UNames |-> u_rand_init]
  /\ h = i_rand_construct
  /\ pc = "idle"
  /\ loc = <<>>
  /\ par = <<>>
  /\ last = Idle

NextIRand ==
  \/ IInit
  \/ IRefine
  \/ ICall
  \/ INegate
  \/ IAdd
  \/ ILessThan
  \/ ILessThanEqual
  \/ IGreaterThan
  \/ IGreaterThanEqual
  \/ Return

SpecIRand == InitIRand /\ [][NextIRand]_vars

(***************************************************************************)
(* The distribution of init(g, m), by counting digit sequences: every      *)
(* sequence of n digits has probability b^-n.                              *)
(***************************************************************************)
MaxPeriod == 6     \* digits within which the loop state of init must recur

RECURSIVE Sum(_, _, _)
Sum(F(_), lo, hi) == IF lo > hi THEN 0 ELSE F(lo) + Sum(F, lo + 1, hi)

\* the sequences of k = 0..n digits after which init(g, m) asks for one more
\* digit, as the sequence of their sets
RECURSIVE InitStarvedSeq(_, _, _)
InitStarvedSeq(base, m, n) ==
  IF n = 0 THEN <<{t \in {<<>>} : ~i_rand_init(base, i_rand_construct, m, t).ok}>>
  ELSE LET p == InitStarvedSeq(base, m, n - 1) IN
       Append(p, {t \in {Append(q, dg) : q \in p[n], dg \in 0..(base - 1)} :
                    ~i_rand_init(base, i_rand_construct, m, t).ok})

InitStarvedTable ==
  [base \in Bases |-> [m \in 1..MaxM |-> InitStarvedSeq(base, m, MaxPeriod)]]

\* the sequences of n digits after which init(g, m) asks for one more digit
InitStarved(base, m, n) == InitStarvedTable[base][m][n + 1]

\* the sequences of n digits that init(g, m) consumes exactly before it returns
InitReturned(base, m, n) ==
  LET cand == IF n = 0 THEN {<<>>}
              ELSE {Append(t, dg) : t \in InitStarved(base, m, n - 1), dg \in 0..(base - 1)}
  IN {t \in cand : i_rand_init(base, i_rand_construct, m, t).ok}

\* the loop states (v, c) of init(g, m) that are waiting for digit n + 1
InitStates(base, m, n) ==
  {[v |-> i_rand_init(base, i_rand_construct, m, t).v,
    c |-> i_rand_init(base, i_rand_construct, m, t).c] : t \in InitStarved(base, m, n)}

\* the largest span init(g, m) can return: the largest power of the base <= m
RECURSIVE MaxSpan(_, _)
MaxSpan(base, m) == IF m < base THEN 1 ELSE base * MaxSpan(base, m \div base)

\* the number of sequences of exactly n digits after which init(g, m) has
\* returned the range [a, a + d)
RECURSIVE RangeCount(_, _, _, _, _)
RangeCount(base, m, a, d, n) ==
  IF n < 0 THEN 0
  ELSE base * RangeCount(base, m, a, d, n - 1)
       + Cardinality({t \in InitReturned(base, m, n) :
                        LET hh == i_rand_init(base, i_rand_construct, m, t).h
                        IN hh.a = a /\ hh.d = d})

\* the ranges init(g, m) returns within n digits
InitRanges(base, m, n) ==
  UNION {{[a |-> i_rand_init(base, i_rand_construct, m, t).h.a,
           d |-> i_rand_init(base, i_rand_construct, m, t).h.d] :
            t \in InitReturned(base, m, k)} : k \in 0..n}

\* the probability that init(g, m) returns within k = 0..n digits a range
\* holding i and that i is the value of the full refinement of that range, in
\* units of 1 / (MaxSpan * base^k), as a sequence: a range of span d yields
\* each of its integers with probability 1/d
RECURSIVE ValueMassSeq(_, _, _, _)
ValueMassSeq(base, m, i, n) ==
  LET new == Sum(LAMBDA l :
                   (MaxSpan(base, m) \div Pow(base, l))
                   * Cardinality({t \in InitReturned(base, m, n) :
                                    LET hh == i_rand_init(base, i_rand_construct, m, t).h
                                    IN hh.l = l /\ hh.a <= i /\ i <= hh.a + hh.d - 1}),
                 0, m)
  IN IF n = 0 THEN <<new>>
     ELSE LET p == ValueMassSeq(base, m, i, n - 1) IN Append(p, base * p[n] + new)

ValueMassTable ==
  [base \in Bases |-> [m \in 1..MaxM |-> [i \in 0..(m - 1) |->
     ValueMassSeq(base, m, i, MaxPeriod)]]]

ValueMass(base, m, i, n) == ValueMassTable[base][m][i][n + 1]

\* the pairs n0 < n at which init(g, m) waits in the same set of loop states:
\* what happens after digit n is what happened after digit n0
InitPeriods(base, m) ==
  {p \in (0..MaxPeriod) \X (0..MaxPeriod) :
     /\ p[1] < p[2]
     /\ InitStates(base, m, p[1]) = InitStates(base, m, p[2])
     /\ Cardinality(InitStarved(base, m, p[1])) = Cardinality(InitStates(base, m, p[1]))
     /\ Cardinality(InitStarved(base, m, p[2])) = Cardinality(InitStates(base, m, p[2]))}

\* With loop states recurring at n0 < n the probability of the value i is
\* (ValueMass(i, n) - ValueMass(i, n0)) / (MaxSpan * b^n0 * (b^(n - n0) - 1));
\* it equals 1/m for every i of 0..m-1 and nothing else is returned.
InitUniform(base, m) ==
  \A p \in InitPeriods(base, m) :
    /\ \A i \in 0..(m - 1) :
         m * (ValueMass(base, m, i, p[2]) - ValueMass(base, m, i, p[1]))
           = MaxSpan(base, m) * Pow(base, p[1]) * (Pow(base, p[2] - p[1]) - 1)
    /\ \A r \in InitRanges(base, m, p[2]) : 0 <= r.a /\ r.a + r.d <= m

InitUniformTable ==
  [base \in Bases |-> [m \in 1..MaxM |->
     [periods |-> InitPeriods(base, m), uniform |-> InitUniform(base, m)]]]

\* b = 2, m = 9: the loop state after 6 digits is the initial one, on one
\* sequence out of 64, so the 63 others give the probabilities as n / 63
InitNine ==
  /\ InitStates(2, 9, 6) = {[v |-> 1, c |-> 0]}
  /\ Cardinality(InitStarved(2, 9, 6)) = 1
  /\ InitStates(2, 9, 0) = {[v |-> 1, c |-> 0]}
  /\ InitRanges(2, 9, 6) = {[a |-> 0, d |-> 8], [a |-> 0, d |-> 2], [a |-> 2, d |-> 4],
                            [a |-> 6, d |-> 2], [a |-> 8, d |-> 1]}
  /\ RangeCount(2, 9, 0, 8, 6) = 32       \* 32/63
  /\ RangeCount(2, 9, 0, 2, 6) * 21 = 2 * 63
  /\ RangeCount(2, 9, 2, 4, 6) * 21 = 4 * 63
  /\ RangeCount(2, 9, 6, 2, 6) * 21 = 2 * 63
  /\ RangeCount(2, 9, 8, 1, 6) * 9 = 63

\* C3: after init(g, m) with m > 0 the i-rand is a sub-range of 0..m-1
\* (0 <= min() <= max() <= m-1) and its full refinement is uniform on 0..m-1:
\* init returns each range with the probability that makes every i of 0..m-1
\* equally likely, and operator() maps the digits it draws one-to-one onto the
\* range.  For b = 2, m = 9 the ranges are [0,8), [0,2), [2,6), [6,8), [8,9)
\* with probabilities 32/63, 2/21, 4/21, 2/21, 1/9.  For m <= 0 init does what
\* it does for m = 1: value 0, entropy 0, no digit drawn.
C3_InitUniformRange ==
  /\ (last.op = "init" /\ last.m > 0) =>
       /\ 0 <= i_rand_min(h) /\ i_rand_min(h) <= i_rand_max(h)
       /\ i_rand_max(h) <= last.m - 1
       /\ InitUniformTable[b][last.m].periods # {}
       /\ InitUniformTable[b][last.m].uniform
       /\ (b = 2 /\ last.m = 9) =>
            /\ InitNine
            /\ [a |-> h.a, d |-> h.d] \in InitRanges(2, 9, 6)
  /\ (last.op = "init" /\ last.m <= 0) =>
       /\ h = [a |-> 0, d |-> 1, l |-> 0]
       /\ last.drawn = <<>>
       /\ IRandInitRuns[b][last.m] = IRandInitRuns[b][1]
  /\ last.op = "call" =>
       /\ h.l = 0 /\ h.a = last.ret
       /\ Len(last.drawn) = last.pre.l
       /\ last.ret = last.pre.a + DigitsValue(last.drawn, b)

C3_Witness ==
  /\ last.op = "init" /\ b = 2 /\ last.m = 9
  /\ h = [a |-> 2, d |-> 4, l |-> 2]
  /\ Len(last.drawn) = 3
  /\ <<0, 6>> \in InitUniformTable[b][last.m].periods

KValues == {0, 1, 2} \* the k that step 1 of the normal sampler may count
MaxIter == 1       \* rejections within one call of generate
MaxBDraw == 4      \* digits one run of Algorithm B may draw
MaxNDigits == 1    \* fraction digits a u-rand of the normal sampler may hold

\* mutant: the middle digit of an odd base counts as below 1/2
u_rand_truncatep_middle(base, u, k, t) ==
  Let(u_rand_digit(u, k, t), LAMBDA r :
  IF ~r.ok THEN [u |-> r.u, t |-> <<>>, ok |-> FALSE, ret |-> FALSE]
  ELSE [u |-> r.u, t |-> r.t, ok |-> TRUE, ret |-> r.val <= CDiv(base - 1, 2)])

\* u_rand::truncatep(g, k)
RECURSIVE u_rand_truncatep(_, _, _, _)
u_rand_truncatep(base, u, k, t) ==
  Let(u_rand_digit(u, k, t), LAMBDA r :
  IF ~r.ok THEN [u |-> r.u, t |-> <<>>, ok |-> FALSE, ret |-> FALSE]
  ELSE IF r.val <= CDiv(base - 2, 2) THEN [u |-> r.u, t |-> r.t, ok |-> TRUE, ret |-> TRUE]
  ELSE IF r.val > CDiv(base - 1, 2) THEN [u |-> r.u, t |-> r.t, ok |-> TRUE, ret |-> FALSE]
  ELSE u_rand_truncatep(base, r.u, k + 1, r.t))

\* u_rand::less_than_half(g)
u_rand_less_than_half(base, u, t) ==
  IF u.s < 0 THEN [u |-> u, t |-> t, ok |-> TRUE, ret |-> TRUE]
  ELSE IF u.n > 0 THEN [u |-> u, t |-> t, ok |-> TRUE, ret |-> FALSE]
  ELSE u_rand_truncatep(base, u, 0, t)

\* the loop of unit_normal_dist::H on _y and _z
RECURSIVE normal_H_loop(_, _, _)
normal_H_loop(y, z, t) ==
  \* if (!_z.init().less_than(g, _y)) return false;
  Let(u_rand_less_than(u_rand_init, y, FALSE, t), LAMBDA ra :
  IF ~ra.ok THEN [y |-> ra.v, z |-> ra.u, t |-> <<>>, ok |-> FALSE, ret |-> FALSE]
  ELSE IF ~ra.ret THEN [y |-> ra.v, z |-> ra.u, t |-> ra.t, ok |-> TRUE, ret |-> FALSE]
  ELSE
    \* if (!_y.init().less_than(g, _z)) return true;
    Let(u_rand_less_than(u_rand_init, ra.u, FALSE, ra.t), LAMBDA rb :
    IF ~rb.ok THEN [y |-> rb.u, z |-> rb.v, t |-> <<>>, ok |-> FALSE, ret |-> FALSE]
    ELSE IF ~rb.ret THEN [y |-> rb.u, z |-> rb.v, t |-> rb.t, ok |-> TRUE, ret |-> TRUE]
    ELSE normal_H_loop(rb.u, rb.v, rb.t)))

\* unit_normal_dist::H
normal_H(base, y, z, t) ==
  Let(u_rand_less_than_half(base, u_rand_init, t), LAMBDA r :
  IF ~r.ok THEN [y |-> r.u, z |-> z, t |-> <<>>, ok |-> FALSE, ret |-> FALSE]
  ELSE IF ~r.ret THEN [y |-> r.u, z |-> z, t |-> r.t, ok |-> TRUE, ret |-> TRUE]
  ELSE normal_H_loop(r.u, z, r.t))

\* mutant: the returns of +1 and 0 change places
RECURSIVE normal_C_loop_swapped(_, _, _, _, _)
normal_C_loop_swapped(base, m, n1, n2, t) ==
  IF t = <<>> THEN [t |-> <<>>, ok |-> FALSE, ret |-> 0]
  ELSE Let(<<Max2(0, n1 * base - Head(t) * m), Min2(m, n2 * base - Head(t) * m)>>,
           LAMBDA n :
         IF n[1] >= m THEN [t |-> Tail(t), ok |-> TRUE, ret |-> -1]
         ELSE IF n[2] <= 0 THEN [t |-> Tail(t), ok |-> TRUE, ret |-> 0]
         ELSE IF n[1] <= 0 /\ n[2] >= m THEN [t |-> Tail(t), ok |-> TRUE, ret |-> 1]
         ELSE normal_C_loop_swapped(base, m, n[1], n[2], Tail(t)))

\* unit_normal_dist::C with n1, n2 as they stand before the next digit; the
\* bases of the model are below 2^15, so shift = 0 and tbase = base
RECURSIVE normal_C_loop(_, _, _, _, _)
normal_C_loop(base, m, n1, n2, t) ==
  IF t = <<>> THEN [t |-> <<>>, ok |-> FALSE, ret |-> 0]
  ELSE Let(<<Max2(0, n1 * base - Head(t) * m), Min2(m, n2 * base - Head(t) * m)>>,
           LAMBDA n :
         IF n[1] >= m THEN [t |-> Tail(t), ok |-> TRUE, ret |-> -1]
         ELSE IF n[2] <= 0 THEN [t |-> Tail(t), ok |-> TRUE, ret |-> 1]
         ELSE IF n[1] <= 0 /\ n[2] >= m THEN [t |-> Tail(t), ok |-> TRUE, ret |-> 0]
         ELSE normal_C_loop(base, m, n[1], n[2], Tail(t)))

normal_C(base, m, t) == normal_C_loop(base, m, 1, 2, t)

\* the loop of unit_normal_dist::B at the head of round n
RECURSIVE normal_B_loop(_, _, _, _, _, _, _)
normal_B_loop(base, k, x, y, z, t, n) ==
  LET m == 2 * k + 2
      stop(xx, yy, zz, tt) == [x |-> xx, y |-> yy, z |-> zz, t |-> tt, ok |-> TRUE,
                               ret |-> (n % 2 = 0)]
      fail(xx, yy, zz) == [x |-> xx, y |-> yy, z |-> zz, t |-> <<>>, ok |-> FALSE,
                           ret |-> FALSE]
  IN
  \* f = k ? 0 : C(g, m); if (f < 0) break;
  Let(IF k # 0 THEN [t |-> t, ok |-> TRUE, ret |-> 0] ELSE normal_C(base, m, t),
      LAMBDA c1 :
  IF ~c1.ok THEN fail(x, y, z)
  ELSE IF c1.ret < 0 THEN stop(x, y, z, c1.t)
  ELSE
    \* if (!_z.init().less_than(g, n ? _y : x)) break;
    Let(u_rand_less_than(u_rand_init, IF n # 0 THEN y ELSE x, FALSE, c1.t),
        LAMBDA r1 :
    LET x1 == IF n # 0 THEN x ELSE r1.v
        y1 == IF n # 0 THEN r1.v ELSE y
        z1 == r1.u
    IN
    IF ~r1.ok THEN fail(x1, y1, z1)
    ELSE IF ~r1.ret THEN stop(x1, y1, z1, r1.t)
    ELSE
      \* f = k ? C(g, m) : f; if (f < 0) break;
      Let(IF k # 0 THEN normal_C(base, m, r1.t)
          ELSE [t |-> r1.t, ok |-> TRUE, ret |-> c1.ret],
          LAMBDA c2 :
      IF ~c2.ok THEN fail(x1, y1, z1)
      ELSE IF c2.ret < 0 THEN stop(x1, y1, z1, c2.t)
      ELSE IF c2.ret = 0
        \* if (f == 0 && (!_y.init().less_than(g, x))) break; _y.swap(_z);
        THEN Let(u_rand_less_than(u_rand_init, x1, FALSE, c2.t),
                 LAMBDA r2 :
                   IF ~r2.ok THEN fail(r2.v, r2.u, z1)
                   ELSE IF ~r2.ret THEN stop(r2.v, r2.u, z1, r2.t)
                   ELSE normal_B_loop(base, k, r2.v, z1, r2.u, r2.t, n + 1))
        ELSE normal_B_loop(base, k, x1, z1, y1, c2.t, n + 1))))

\* unit_normal_dist::B
normal_B(base, k, x, y, z, t) == normal_B_loop(base, k, x, y, z, t, 0)

\* mutant: step 3 leaves x as it is
normal_step3_keep(x) == x

\* step 3 of unit_normal_dist::generate: x.init()
normal_step3(x) == u_rand_init

RECURSIVE IsSubseq(_, _)
IsSubseq(p, q) ==
  IF p = <<>> THEN TRUE
  ELSE IF q = <<>> THEN FALSE
  ELSE IF Head(p) = Head(q) THEN IsSubseq(Tail(p), Tail(q))
  ELSE IsSubseq(p, Tail(q))

(***************************************************************************)
(* The normal sampler: unit_normal_dist::generate(g, x) step by step, a    *)
(* run of H or of B being one step.  loc holds the locals k, n (of P) and  *)
(* j, and a record of the present iteration of the for loop: the number of *)
(* the iteration, the failures so far, the runs of H in step 2 and of B in *)
(* step 4 by result, the runs made after a failure, the iteration in which *)
(* x was last initialised and the number of digits drawn in step 4.  last  *)
(* holds the u-rands before the latest run of B and the digits it drew.    *)
(***************************************************************************)
NNames == {"x", "y", "z"}

\* the digit sequences a run of H consumes exactly: H initialises _y and _z
\* before it reads them, so they are the same from every state
HTapes ==
  [base \in Bases |->
     ValidTapes(base, LAMBDA tt : normal_H(base, u_rand_init, u_rand_init, tt),
                <<>>, MaxDraw)]

\* the digit sequences less_than_half consumes exactly on a fresh u-rand
HalfTapes ==
  [base \in Bases |->
     ValidTapes(base, LAMBDA tt : u_rand_less_than_half(base, u_rand_init, tt),
                <<>>, MaxDraw)]


NormalIteration(iter, fails) ==
  [k |-> 0, n |-> 0, j |-> 0, iter |-> iter, fails |-> fails,
   h2true |-> 0, h2fail |-> 0, h2after |-> 0,
   btrue |-> 0, bfail |-> 0, bafter |-> 0, xinit |-> -1, ndraw4 |-> 0]

\* x is the caller's u-rand: as constructed, or as an earlier use left it
InitNormal ==
  /\ b \in Bases
  /\ \E x0 \in {u_rand_init, [s |-> -1, n |-> 1, d |-> <<1, 0>>]} :
       ur = [w \in NNames |-> IF w = "x" THEN x0 ELSE u_rand_init]
  /\ h = i_rand_construct
  /\ pc = "idle"
  /\ loc = NormalIteration(0, 0)
  /\ par = <<>>
  /\ last = Idle

\* generate is called: for (;;) {
NStart ==
  /\ pc = "idle"
  /\ last = Idle
  /\ pc' = "step1"
  /\ loc' = NormalIteration(0, 0)
  /\ last' = Idle
  /\ UNCHANGED <<b, ur, h, par>>

\* step 1, G: while (H(g)) ++n; return n;
NG_H ==
  /\ pc = "step1"
  /\ \E t \in HTapes[b] :
       LET r == normal_H(b, ur["y"], ur["z"], t) IN
       /\ r.ok /\ r.t = <<>>
       /\ \A u \in {r.y, r.z} : Len(u.d) <= MaxNDigits
       /\ r.ret => loc.k + 1 \in KValues
       /\ ur' = [ur EXCEPT !["y"] = r.y, !["z"] = r.z]
       /\ IF r.ret
          THEN /\ loc' = [loc EXCEPT !.k = loc.k + 1]
               /\ pc' = "step1"
          ELSE /\ loc' = [loc EXCEPT !.n = loc.k * (loc.k - 1)]
               /\ pc' = "step2"
  /\ UNCHANGED <<b, h, par, last>>

\* step 2, P: while (n-- && H(g)) with n != 0
NP_H ==
  /\ pc = "step2"
  /\ loc.n # 0
  /\ \E t \in HTapes[b] :
       LET r == normal_H(b, ur["y"], ur["z"], t) IN
       /\ r.ok /\ r.t = <<>>
       /\ \A u \in {r.y, r.z} : Len(u.d) <= MaxNDigits
       /\ ur' = [ur EXCEPT !["y"] = r.y, !["z"] = r.z]
       /\ loc' = [loc EXCEPT !.n = loc.n - 1,
                             !.h2true = IF r.ret THEN @ + 1 ELSE @,
                             !.h2fail = IF r.ret THEN @ ELSE @ + 1,
                             !.h2after = IF loc.h2fail > 0 THEN @ + 1 ELSE @]
       /\ pc' = IF r.ret THEN "step2" ELSE "step2ret"
  /\ UNCHANGED <<b, h, par, last>>

\* step 2, P: while (n-- && H(g)) with n = 0
NP_Exit ==
  /\ pc = "step2"
  /\ loc.n = 0
  /\ loc' = [loc EXCEPT !.n = -1]
  /\ pc' = "step2ret"
  /\ UNCHANGED <<b, ur, h, par, last>>

\* return n < 0; if (!P(...)) continue; x.init(); int j = k + 1;
NP_Ret ==
  /\ pc = "step2ret"
  /\ IF loc.n < 0
     THEN /\ ur' = [ur EXCEPT !["x"] = normal_step3(ur["x"])]
          /\ loc' = [loc EXCEPT !.j = loc.k + 1, !.xinit = loc.iter]
          /\ pc' = "step4"
     ELSE /\ loc.iter < MaxIter
          /\ ur' = ur
          /\ loc' = NormalIteration(loc.iter + 1, loc.fails + 1)
          /\ pc' = "step1"
  /\ UNCHANGED <<b, h, par, last>>

\* step 4: while (j-- && B(g, k, x)) with j != 0
NB_Run ==
  /\ pc = "step4"
  /\ loc.j # 0
  /\ \E t \in ValidTapes(b, LAMBDA tt : normal_B(b, loc.k, ur["x"], ur["y"], ur["z"], tt),
                          <<>>, MaxBDraw) :
       LET r == normal_B(b, loc.k, ur["x"], ur["y"], ur["z"], t) IN
       /\ \A u \in {r.x, r.y, r.z} : Len(u.d) <= MaxNDigits
       /\ ur' = [ur EXCEPT !["x"] = r.x, !["y"] = r.y, !["z"] = r.z]
       /\ loc' = [loc EXCEPT !.j = loc.j - 1,
                             !.btrue = IF r.ret THEN @ + 1 ELSE @,
                             !.bfail = IF r.ret THEN @ ELSE @ + 1,
                             !.bafter = IF loc.bfail > 0 THEN @ + 1 ELSE @,
                             !.ndraw4 = @ + Len(t)]
       /\ last' = [op |-> "B", pre |-> ur, drawn |-> t, ret |-> r.ret]
       /\ pc' = IF r.ret THEN "step4" ELSE "step4ret"
  /\ UNCHANGED <<b, h, par>>

\* step 4: while (j-- && B(g, k, x)) with j = 0
NB_Exit ==
  /\ pc = "step4"
  /\ loc.j = 0
  /\ loc' = [loc EXCEPT !.j = -1]
  /\ pc' = "step4ret"
  /\ last' = Idle
  /\ UNCHANGED <<b, ur, h, par>>

\* if (!(j < 0)) continue; x.set_integer(k);
NB_Ret ==
  /\ pc = "step4ret"
  /\ IF loc.j < 0
     THEN /\ ur' = [ur EXCEPT !["x"] = u_rand_set_integer(ur["x"], loc.k)]
          /\ loc' = loc
          /\ pc' = "step6"
     ELSE /\ loc.iter < MaxIter
          /\ ur' = ur
          /\ loc' = NormalIteration(loc.iter + 1, loc.fails + 1)
          /\ pc' = "step1"
  /\ last' = Idle
  /\ UNCHANGED <<b, h, par>>

\* step 6, 7: if (_y.init().less_than_half(g)) x.negate(); return;
NStep6 ==
  /\ pc = "step6"
  /\ \E t \in HalfTapes[b] :
       LET r == u_rand_less_than_half(b, u_rand_init, t) IN
       /\ ur' = [ur EXCEPT !["y"] = r.u,
                           !["x"] = IF r.ret THEN u_rand_negate(ur["x"]) ELSE ur["x"]]
       /\ last' = [op |-> "generate", pre |-> ur, drawn |-> t, ret |-> r.ret]
  /\ pc' = "idle"
  /\ UNCHANGED <<b, h, loc, par>>

NextNormal ==
  \/ NStart
  \/ NG_H
  \/ NP_H
  \/ NP_Exit
  \/ NP_Ret
  \/ NB_Run
  \/ NB_Exit
  \/ NB_Ret
  \/ NStep6

SpecNormal == InitNormal /\ [][NextNormal]_vars

\* the digits x holds beyond those of xpre are digits of the sequence t
XGrownBy(xpre, x, t) ==
  /\ x.s = xpre.s /\ x.n = xpre.n
  /\ IsPrefix(xpre.d, x.d)
  /\ IsSubseq(SubSeq(x.d, Len(xpre.d) + 1, Len(x.d)), t)

\* C5: generate returns only from an iteration in which the k(k-1) runs of H
\* in step 2 and the k+1 runs of B in step 4 all returned true; no H is run in
\* step 2 after an H failed there and no B in step 4 after a B failed; every
\* failure is followed by a restart at step 1, and x is initialised anew
\* before step 4 of the new iteration.  On return the integer part of x is k,
\* its fraction digits are digits drawn in step 4 of the accepted iteration
\* (x is empty when step 4 begins and a run of B only appends digits it
\* draws), and its sign is -1 exactly when the fresh u-rand drawn after step 5
\* is below 1/2.
C5_NormalAcceptReject ==
  /\ loc.h2after = 0 /\ loc.bafter = 0
  /\ pc \in {"step1", "step2", "step4", "step6", "idle"} =>
       loc.h2fail = 0 /\ loc.bfail = 0 /\ loc.fails = loc.iter
  /\ pc = "step1" => loc.h2true = 0 /\ loc.btrue = 0 /\ loc.ndraw4 = 0
  /\ pc \in {"step2ret", "step4ret"} =>
       loc.h2fail + loc.bfail <= 1 /\ loc.fails = loc.iter
  /\ pc \in {"step4", "step4ret", "step6"} =>
       /\ loc.h2true = loc.k * (loc.k - 1)
       /\ loc.xinit = loc.iter
       /\ Len(ur["x"].d) <= loc.ndraw4
  /\ (pc = "step4" /\ loc.btrue = 0) => ur["x"] = u_rand_init
  /\ last.op = "B" => XGrownBy(last.pre["x"], ur["x"], last.drawn)
  /\ pc = "step6" => loc.btrue = loc.k + 1 /\ ur["x"].n = loc.k /\ ur["x"].s = 1
  /\ (pc = "idle" /\ last.op = "generate") =>
       /\ loc.h2true = loc.k * (loc.k - 1) /\ loc.h2fail = 0
       /\ loc.btrue = loc.k + 1 /\ loc.bfail = 0
       /\ loc.xinit = loc.iter
       /\ ur["x"].n = loc.k
       /\ ur["x"].d = last.pre["x"].d
       /\ Len(ur["x"].d) <= loc.ndraw4
       /\ (ur["x"].s = -1) = last.ret
       /\ ur["x"].s \in {-1, 1}
       /\ ur["y"] = [s |-> 1, n |-> 0, d |-> last.drawn]
       /\ last.ret = (2 * MagHi(ur["y"]) <= UDen(ur["y"]))
       /\ (~last.ret) = (2 * MagLo(ur["y"]) >= UDen(ur["y"]))

C5_Witness ==
  /\ pc = "idle" /\ last.op = "generate"
  /\ loc.k = 2 /\ loc.iter > 0
  /\ ur["x"].s = -1 /\ ur["x"].d # <<>>

(***************************************************************************)
(* unit_exponential_dist                                                   *)
(***************************************************************************)
MaxRej == 2        \* rejections of F within one call of generate
ExpBases == {2, 3, 4}

\* the loop of unit_exponential_dist::F on _v and _w
RECURSIVE exp_F_loop(_, _, _, _)
exp_F_loop(p, v, w, t) ==
  \* if (!_v.init().less_than(g, _w)) return false;
  Let(u_rand_less_than(u_rand_init, w, FALSE, t), LAMBDA ra :
  IF ~ra.ok THEN [p |-> p, v |-> ra.u, w |-> ra.v, t |-> <<>>, ok |-> FALSE, ret |-> FALSE]
  ELSE IF ~ra.ret
    THEN [p |-> p, v |-> ra.u, w |-> ra.v, t |-> ra.t, ok |-> TRUE, ret |-> FALSE]
  ELSE
    \* if (!_w.init().less_than(g, _v)) return true;
    Let(u_rand_less_than(u_rand_init, ra.u, FALSE, ra.t), LAMBDA rb :
    IF ~rb.ok THEN [p |-> p, v |-> rb.v, w |-> rb.u, t |-> <<>>, ok |-> FALSE, ret |-> FALSE]
    ELSE IF ~rb.ret
      THEN [p |-> p, v |-> rb.v, w |-> rb.u, t |-> rb.t, ok |-> TRUE, ret |-> TRUE]
    ELSE exp_F_loop(p, rb.v, rb.u, rb.t)))

\* mutant: the early bale out is taken when p is below 1/2
exp_F_early(base, bit_optimized, p, v, w, t) ==
  Let(IF bit_optimized THEN u_rand_less_than_half(base, u_rand_init, t)
      ELSE [u |-> u_rand_init, t |-> t, ok |-> TRUE, ret |-> FALSE],
      LAMBDA r0 :
  IF ~r0.ok THEN [p |-> r0.u, v |-> v, w |-> w, t |-> <<>>, ok |-> FALSE, ret |-> FALSE]
  ELSE IF bit_optimized /\ r0.ret
    THEN [p |-> r0.u, v |-> v, w |-> w, t |-> r0.t, ok |-> TRUE, ret |-> FALSE]
  ELSE
    Let(u_rand_less_than(u_rand_init, r0.u, FALSE, r0.t), LAMBDA r1 :
    IF ~r1.ok THEN [p |-> r1.v, v |-> v, w |-> r1.u, t |-> <<>>, ok |-> FALSE, ret |-> FALSE]
    ELSE IF ~r1.ret
      THEN [p |-> r1.v, v |-> v, w |-> r1.u, t |-> r1.t, ok |-> TRUE, ret |-> TRUE]
    ELSE exp_F_loop(r1.v, v, r1.u, r1.t)))

\* unit_exponential_dist::F(g, p)
exp_F(base, bit_optimized, p, v, w, t) ==
  \* p.init(); if (bit_optimized && !p.less_than_half(g)) return false;
  Let(IF bit_optimized THEN u_rand_less_than_half(base, u_rand_init, t)
      ELSE [u |-> u_rand_init, t |-> t, ok |-> TRUE, ret |-> TRUE],
      LAMBDA r0 :
  IF ~r0.ok THEN [p |-> r0.u, v |-> v, w |-> w, t |-> <<>>, ok |-> FALSE, ret |-> FALSE]
  ELSE IF bit_optimized /\ ~r0.ret
    THEN [p |-> r0.u, v |-> v, w |-> w, t |-> r0.t, ok |-> TRUE, ret |-> FALSE]
  ELSE
    \* if (!_w.init().less_than(g, p)) return true;
    Let(u_rand_less_than(u_rand_init, r0.u, FALSE, r0.t), LAMBDA r1 :
    IF ~r1.ok THEN [p |-> r1.v, v |-> v, w |-> r1.u, t |-> <<>>, ok |-> FALSE, ret |-> FALSE]
    ELSE IF ~r1.ret
      THEN [p |-> r1.v, v |-> v, w |-> r1.u, t |-> r1.t, ok |-> TRUE, ret |-> TRUE]
    ELSE exp_F_loop(r1.v, v, r1.u, r1.t)))

\* if (bit_optimized && (k % 2) != 0) x.rawdigit(0) += (bm1 - 1U) / 2U + 1U;
\* x.set_integer(bit_optimized ? k/2 : k);
\* (no digit is added to a u-rand without digits: C6 shows there is one; the
\* sum stays below the base, so uint_t does not wrap)
exp_finish(base, bit_optimized, k, x) ==
  LET x1 == IF bit_optimized /\ CMod(k, 2) # 0
            THEN IF x.d = <<>> THEN x
                 ELSE [x EXCEPT !.d[1] = @ + CDiv(base - 2, 2) + 1]
            ELSE x
  IN u_rand_set_integer(x1, IF bit_optimized THEN CDiv(k, 2) ELSE k)

(***************************************************************************)
(* The exponential sampler: unit_exponential_dist::generate(g, x), a run   *)
(* of F being one step.  par holds the template parameter bit_optimized    *)
(* (Algorithm E when true, Algorithm V when false), loc the local k.       *)
(***************************************************************************)
ENames == {"x", "v", "w"}

\* bit_optimized requires an even base (static_assert); x is the caller's
\* u-rand, as constructed or as an earlier use left it
InitExp ==
  /\ b \in ExpBases
  /\ \E bo \in BOOLEAN :
       /\ bo => b % 2 = 0
       /\ par = [bit_optimized |-> bo]
  /\ \E x0 \in {u_rand_init, [s |-> -1, n |-> 1, d |-> <<1, 0>>]} :
       ur = [w \in ENames |-> IF w = "x" THEN x0 ELSE u_rand_init]
  /\ h = i_rand_construct
  /\ pc = "idle"
  /\ loc = [k |-> 0]
  /\ last = Idle

\* generate is called: int k = 0;
EStart ==
  /\ pc = "idle"
  /\ last = Idle
  /\ pc' = "loop"
  /\ loc' = [k |-> 0]
  /\ UNCHANGED <<b, ur, h, par, last>>

\* while (!F(g, x)) ++k;
EF ==
  /\ pc = "loop"
  /\ \E t \in ValidTapes(b, LAMBDA tt : exp_F(b, par.bit_optimized, ur["x"], ur["v"],
                                                ur["w"], tt), <<>>, MaxDraw) :
       LET r == exp_F(b, par.bit_optimized, ur["x"], ur["v"], ur["w"], t) IN
       /\ \A u \in {r.p, r.v, r.w} : Len(u.d) <= MaxNDigits
       /\ ~r.ret => loc.k < MaxRej
       /\ ur' = [ur EXCEPT !["x"] = r.p, !["v"] = r.v, !["w"] = r.w]
       /\ loc' = IF r.ret THEN loc ELSE [k |-> loc.k + 1]
       /\ pc' = IF r.ret THEN "accepted" ELSE "loop"
  /\ UNCHANGED <<b, h, par, last>>

\* the first digit is raised for odd k, the integer part is set; return
EFinish ==
  /\ pc = "accepted"
  /\ ur' = [ur EXCEPT !["x"] = exp_finish(b, par.bit_optimized, loc.k, ur["x"])]
  /\ last' = [op |-> "generate", pre |-> ur, k |-> loc.k]
  /\ pc' = "idle"
  /\ UNCHANGED <<b, h, loc, par>>

NextExp ==
  \/ EStart
  \/ EF
  \/ EFinish

SpecExp == InitExp /\ [][NextExp]_vars

\* C6: when generate returns after k rejections of F, with Algorithm E
\* (bit_optimized, even base) x has sign +1, integer part floor(k/2), at least
\* one fraction digit, every digit in [0, b), and a first digit in [b/2, b) for
\* odd k and in [0, b/2) for even k, b/2 having been added to the first digit
\* exactly when k is odd; with Algorithm V the integer part is k and no digit
\* is altered.
C6_ExponentialResult ==
  (pc = "idle" /\ last.op = "generate") =>
    LET x == ur["x"]
        xa == last.pre["x"]   \* x as the accepting run of F left it
        k == last.k
    IN
    /\ x.s = 1
    /\ \A i \in 1..Len(x.d) : x.d[i] \in 0..(b - 1)
    /\ par.bit_optimized =>
         /\ b % 2 = 0
         /\ 2 * x.n <= k /\ k < 2 * x.n + 2
         /\ Len(x.d) >= 1
         /\ Len(x.d) = Len(xa.d)
         /\ \A i \in 2..Len(x.d) : x.d[i] = xa.d[i]
         /\ (k % 2 = 1) => /\ x.d[1] = xa.d[1] + b \div 2
                           /\ 2 * x.d[1] >= b /\ x.d[1] < b
         /\ (k % 2 = 0) => /\ x.d[1] = xa.d[1]
                           /\ 2 * x.d[1] < b
    /\ ~par.bit_optimized =>
         /\ x.n = k
         /\ x.d = xa.d

C6_Witness ==
  /\ pc = "idle" /\ last.op = "generate"
  /\ par.bit_optimized /\ b = 4
  /\ last.k = 1
  /\ ur["x"].d[1] = 3

\* Algorithm V returning after two rejections
C6_WitnessV ==
  /\ pc = "idle" /\ last.op = "generate"
  /\ ~par.bit_optimized /\ b = 3
  /\ last.k = 2 /\ ur["x"].n = 2 /\ ur["x"].d # <<>>

(***************************************************************************)
(* discrete_normal_dist: parameters                                        *)
(*                                                                         *)
(* The model checker's integers are 32 bits wide, so int is modelled with  *)
(* IntBits bits and long long with twice as many; the limits maxint and    *)
(* maxll and every guard keep the form they have in the source.            *)
(***************************************************************************)
IntBits == 10      \* width of int; long long has 2 * IntBits bits
kmax == 51         \* int kmax = 50 + 1

\* std::numeric_limits<int>::max(), ::min(), std::numeric_limits<long long>::max()
maxint == Pow(2, IntBits - 1) - 1
minint == -Pow(2, IntBits - 1)
maxll == Pow(2, 2 * IntBits - 1) - 1

Abs(x) == IF x < 0 THEN -x ELSE x

\* conversion to int: the value modulo 2^IntBits
ToInt(x) == ((x - minint) % Pow(2, IntBits)) + minint

\* mutant: the quotient is not rounded up
iceil_trunc(n, d) == CDiv(n, d)

\* discrete_normal_dist::iceil
iceil(n, d) == LET k == CDiv(n, d) IN k + (IF k * d < n THEN 1 ELSE 0)

\* the loop of discrete_normal_dist::gcd
RECURSIVE gcd_loop(_, _)
gcd_loop(u, v) == IF v > 0 THEN gcd_loop(v, CMod(u, v)) ELSE u

\* discrete_normal_dist::gcd
gcd(u, v) == gcd_loop(Abs(u), Abs(v))

\* param_type::param_type(): mu = 0, sigma = 1
param_default == [mu_num |-> 0, mu_den |-> 1, sigma_num |-> 1, sigma_den |-> 1]

\* mutant: the four integers are stored before they are checked
param_init_assign_first(x, mu_num, mu_den, sigma_num, sigma_den) ==
  IF ~(sigma_num > 0 /\ sigma_den > 0 /\ mu_den > 0 /\ mu_num > minint)
  THEN [ok |-> FALSE, err |-> "need sigma > 0",
        x |-> [mu_num |-> mu_num, mu_den |-> mu_den,
               sigma_num |-> sigma_num, sigma_den |-> sigma_den]]
  ELSE [ok |-> TRUE, err |-> "",
        x |-> [mu_num |-> CDiv(mu_num, gcd(mu_num, mu_den)),
               mu_den |-> CDiv(mu_den, gcd(mu_num, mu_den)),
               sigma_num |-> CDiv(sigma_num, gcd(sigma_num, sigma_den)),
               sigma_den |-> CDiv(sigma_den, gcd(sigma_num, sigma_den))]]

\* param_type::param_init on the object x; x in the result is the object when
\* the call ends, by return (ok) or by the exception err
param_init(x, mu_num, mu_den, sigma_num, sigma_den) ==
  IF ~(sigma_num > 0 /\ sigma_den > 0 /\ mu_den > 0 /\ mu_num > minint)
  THEN [ok |-> FALSE, err |-> "need sigma > 0", x |-> x]
  ELSE [ok |-> TRUE, err |-> "",
        x |-> [mu_num |-> CDiv(mu_num, gcd(mu_num, mu_den)),
               mu_den |-> CDiv(mu_den, gcd(mu_num, mu_den)),
               sigma_num |-> CDiv(sigma_num, gcd(sigma_num, sigma_den)),
               sigma_den |-> CDiv(sigma_den, gcd(sigma_num, sigma_den))]]

\* The constructors of param_type by the number of their arguments, as the
\* four integers they hand to param_init.
ParamArgs(args) ==
  IF Len(args) = 4 THEN args
  ELSE IF Len(args) = 2 THEN <<args[1], 1, args[2], 1>>
  ELSE <<args[1], args[3], args[2], args[3]>>

\* param_type::param_type(...) with 2, 3 or 4 integers.  The object under
\* construction has no fields yet; it exists only if the constructor returns.
param_type(args) ==
  LET a == ParamArgs(args) IN param_init(param_default, a[1], a[2], a[3], a[4])

\* operator>>(std::istream&, param_type&) on the tokens the stream holds; a
\* token is an integer that fits an int or anything else (the end of the
\* stream included)
param_extract(x, s) ==
  IF Len(s) >= 4 /\ \A i \in 1..4 : s[i].int
  THEN LET r == param_init(x, s[1].val, s[2].val, s[3].val, s[4].val) IN
       [x |-> r.x, failbit |-> FALSE, thrown |-> ~r.ok]
  ELSE [x |-> x, failbit |-> TRUE, thrown |-> FALSE]

\* discrete_normal_dist::init(), the integers it derives from the parameters
discrete_derived(p) ==
  LET imu == ToInt(CDiv(p.mu_num, p.mu_den))
      fmu_num == ToInt(p.mu_num - ToInt(imu * p.mu_den))
      l == gcd(p.sigma_den, p.mu_den)
  IN [imu |-> imu, fmu_num |-> fmu_num,
      isig |-> ToInt(iceil(p.sigma_num, p.sigma_den)),
      l |-> l,
      sig |-> p.sigma_num * CDiv(p.mu_den, l),
      mu |-> fmu_num * CDiv(p.sigma_den, l),
      d |-> p.sigma_den * CDiv(p.mu_den, l)]

NoDist == [made |-> FALSE]

\* the sampler init() leaves when every guard holds
discrete_made(p, v) ==
  [made |-> TRUE, param |-> p, imu |-> v.imu, isig |-> v.isig,
   sig |-> v.sig, mu |-> v.mu, d |-> v.d]

\* mutant: the guard on max(2, _sig) * b * kmax is left out
discrete_init_noguard_c(base, p) ==
  LET v == discrete_derived(p) IN
  IF ~(/\ CDiv(p.mu_den, v.l) <= CDiv(maxll, p.sigma_num)
       /\ Abs(v.fmu_num) <= CDiv(maxll, CDiv(p.sigma_den, v.l))
       /\ CDiv(p.mu_den, v.l) <= CDiv(maxll, p.sigma_den))
  THEN [ok |-> FALSE, err |-> "sigma or mu overflow", dist |-> NoDist]
  ELSE IF ~(v.isig <= CDiv(maxll, v.d))
  THEN [ok |-> FALSE, err |-> "sigma or mu overflow", dist |-> NoDist]
  ELSE IF ~(v.isig <= CDiv(maxint, kmax))
  THEN [ok |-> FALSE, err |-> "possible overflow a", dist |-> NoDist]
  ELSE IF ~(Abs(v.imu) <= maxint - v.isig * kmax)
  THEN [ok |-> FALSE, err |-> "possible overflow b", dist |-> NoDist]
  ELSE [ok |-> TRUE, err |-> "", dist |-> discrete_made(p, v)]

\* discrete_normal_dist::init() on the parameters p
discrete_init(base, p) ==
  LET v == discrete_derived(p) IN
  IF ~(/\ CDiv(p.mu_den, v.l) <= CDiv(maxll, p.sigma_num)
       /\ Abs(v.fmu_num) <= CDiv(maxll, CDiv(p.sigma_den, v.l))
       /\ CDiv(p.mu_den, v.l) <= CDiv(maxll, p.sigma_den))
  THEN [ok |-> FALSE, err |-> "sigma or mu overflow", dist |-> NoDist]
  ELSE IF ~(v.isig <= CDiv(maxll, v.d))
  THEN [ok |-> FALSE, err |-> "sigma or mu overflow", dist |-> NoDist]
  ELSE IF ~(v.isig <= CDiv(maxint, kmax))
  THEN [ok |-> FALSE, err |-> "possible overflow a", dist |-> NoDist]
  ELSE IF ~(Abs(v.imu) <= maxint - v.isig * kmax)
  THEN [ok |-> FALSE, err |-> "possible overflow b", dist |-> NoDist]
  ELSE IF ~(Max2(2, v.sig) <= CDiv(maxll, ToInt(base * kmax)))
  THEN [ok |-> FALSE, err |-> "possible overflow c", dist |-> NoDist]
  ELSE [ok |-> TRUE, err |-> "", dist |-> discrete_made(p, v)]

\* discrete_normal_dist::discrete_normal_dist(D, ...) with 2, 3 or 4 integers:
\* _param is constructed first, then init() runs
discrete_normal_dist(base, args) ==
  LET r == param_type(args) IN
  IF ~r.ok THEN [ok |-> FALSE, err |-> r.err, dist |-> NoDist]
  ELSE discrete_init(base, r.x)

(***************************************************************************)
(* The parameter machine: one statement of a program that holds a          *)
(* param_type x.  par.x is x; par.p is the param_type and par.dist the     *)
(* sampler the statement constructs, absent as long as no constructor has  *)
(* returned.                                                               *)
(***************************************************************************)
NoParam == [made |-> FALSE]

\* the integers given to the constructors
ParamInts == {minint, -7, -1, 0, 1, 3, 10, 100, 101, maxint}

\* the argument lists of the constructors
ParamArgLists ==
  {<<a1, a2, a3, a4>> : a1 \in ParamInts, a2 \in ParamInts, a3 \in ParamInts,
                        a4 \in ParamInts}
  \cup {<<a1, a2>> : a1 \in ParamInts, a2 \in ParamInts}
  \cup {<<a1, a2, a3>> : a1 \in ParamInts, a2 \in ParamInts, a3 \in ParamInts}

\* the tokens of the streams given to operator>>
ExtractTokens ==
  {[int |-> TRUE, val |-> v] : v \in {minint, -7, 0, 1, 3}}
  \cup {[int |-> FALSE, val |-> 0]}

ExtractStreams ==
  UNION {[1..n -> ExtractTokens] : n \in 0..4}

InitParam ==
  /\ b \in Bases
  /\ ur = [w \in UNames |-> u_rand_init]
  /\ h = i_rand_construct
  /\ pc = "idle"
  /\ loc = <<>>
  /\ \E x0 \in {param_default,
                [mu_num |-> -7, mu_den |-> 3, sigma_num |-> 10, sigma_den |-> 3]} :
       par = [x |-> x0, p |-> NoParam, dist |-> NoDist]
  /\ last = Idle

\* param_type p(args...);
PParamType ==
  /\ last = Idle
  /\ \E args \in ParamArgLists :
       LET r == param_type(args) IN
       /\ par' = IF r.ok THEN [par EXCEPT !.p = [made |-> TRUE, param |-> r.x]] ELSE par
       /\ last' = [op |-> "param_type", args |-> ParamArgs(args), pre |-> par,
                   ok |-> r.ok, err |-> r.err]
  /\ UNCHANGED <<b, ur, h, pc, loc>>

\* is >> x;
PExtract ==
  /\ last = Idle
  /\ \E s \in ExtractStreams :
       LET r == param_extract(par.x, s) IN
       /\ par' = [par EXCEPT !.x = r.x]
       /\ last' = [op |-> "extract", stream |-> s, pre |-> par,
                   failbit |-> r.failbit, thrown |-> r.thrown]
  /\ UNCHANGED <<b, ur, h, pc, loc>>

\* discrete_normal_dist<D> dist(D, args...);
PDist ==
  /\ last = Idle
  /\ \E args \in ParamArgLists :
       LET r == discrete_normal_dist(b, args) IN
       /\ par' = [par EXCEPT !.dist = r.dist]
       /\ last' = [op |-> "dist", args |-> ParamArgs(args), pre |-> par,
                   ok |-> r.ok, err |-> r.err]
  /\ UNCHANGED <<b, ur, h, pc, loc>>

\* discrete_normal_dist<D> dist(D, x); and discrete_normal_dist<D> dist(D);
PDistParam ==
  /\ last = Idle
  /\ \E p \in {par.x, param_default} :
       LET r == discrete_init(b, p) IN
       /\ par' = [par EXCEPT !.dist = r.dist]
       /\ last' = [op |-> "dist",
                   args |-> <<p.mu_num, p.mu_den, p.sigma_num, p.sigma_den>>,
                   pre |-> par, ok |-> r.ok, err |-> r.err]
  /\ UNCHANGED <<b, ur, h, pc, loc>>

NextParam ==
  \/ PParamType
  \/ PExtract
  \/ PDist
  \/ PDistParam

SpecParam == InitParam /\ [][NextParam]_vars

\* the greatest common divisor of two positive integers, by its definition
GCD(m, n) ==
  CHOOSE g \in 1..Min2(m, n) :
    /\ m % g = 0 /\ n % g = 0
    /\ \A e \in (g + 1)..Min2(m, n) : ~(m % e = 0 /\ n % e = 0)

\* mu = p/q and sigma = r/s are the fractions the arguments denote, in lowest
\* terms
LowestTerms(a, x) ==
  /\ x.mu_den > 0 /\ x.sigma_den > 0
  /\ x.mu_num * a[2] = a[1] * x.mu_den
  /\ x.sigma_num * a[4] = a[3] * x.sigma_den
  /\ IF x.mu_num = 0 THEN x.mu_den = 1 ELSE GCD(Abs(x.mu_num), x.mu_den) = 1
  /\ GCD(x.sigma_num, x.sigma_den) = 1

\* what the derived integers of the sampler D have in common in C8, mu_int
\* apart
DerivedIntegers(D) ==
  LET p == D.param.mu_num
      q == D.param.mu_den
      r == D.param.sigma_num
      s == D.param.sigma_den
      g == GCD(q, s)
      mu_frac == p - D.imu * q
  IN /\ (D.isig - 1) * s < r /\ r <= D.isig * s
     /\ D.d * g = q * s
     /\ D.sig * g = r * q
     /\ D.mu * g = mu_frac * s
     /\ D.sig * s = r * D.d
     /\ (D.imu * D.d + D.mu) * q = p * D.d

\* C8 as the specification states it: mu_int = floor(p/q), also for p < 0
C8_DerivedIntegersFloor ==
  (last.op = "dist" /\ last.ok) =>
    LET D == par.dist IN
    /\ LowestTerms(last.args, D.param)
    /\ D.imu * D.param.mu_den <= D.param.mu_num
    /\ D.param.mu_num < (D.imu + 1) * D.param.mu_den
    /\ DerivedIntegers(D)

\* C8: for every accepted parameter set mu = p/q, sigma = r/s (lowest terms)
\* the constructor derives mu_int = p/q rounded toward zero (the floor for
\* p >= 0, the ceiling for p < 0), mu_frac = p - mu_int*q (of the sign of p,
\* |mu_frac| < q), sigma_ceil = ceil(r/s), _d = q*s/gcd(q,s),
\* _sig = r*(q/gcd(q,s)) and _mu = mu_frac*(s/gcd(q,s)), so that
\* sigma = _sig/_d and mu = mu_int + _mu/_d.
C8_DerivedIntegers ==
  (last.op = "dist" /\ last.ok) =>
    LET D == par.dist
        p == D.param.mu_num
        q == D.param.mu_den
    IN
    /\ LowestTerms(last.args, D.param)
    /\ Abs(p - D.imu * q) < q
    /\ p >= 0 => p - D.imu * q >= 0
    /\ p <= 0 => p - D.imu * q <= 0
    /\ DerivedIntegers(D)

C8_Witness ==
  /\ last.op = "dist" /\ last.ok
  /\ last.args = <<-7, 3, 10, 3>>
  /\ par.dist.imu = -2 /\ par.dist.isig = 4
  /\ par.dist.d = 3 /\ par.dist.sig = 10 /\ par.dist.mu = -1

\* C9: constructing parameters or a sampler from four integers with
\* sigma <= 0, mu_den <= 0 or mu_num the least int fails with an error and
\* yields no object; a param_type that was the target of a failed extraction
\* (the stream failed, or param_init threw) holds the four integers it held
\* before, and a successful one holds the four integers read, reduced.
C9_ParamFailure ==
  /\ last.op \in {"param_type", "dist"} =>
       LET a == last.args IN
       /\ (\/ (a[4] > 0 /\ a[3] <= 0) \/ (a[4] < 0 /\ a[3] >= 0)
           \/ a[2] <= 0 \/ a[1] = minint)
            => /\ ~last.ok /\ last.err = "need sigma > 0"
               /\ par = last.pre
               /\ ~par.p.made /\ ~par.dist.made
       /\ ~last.ok => par = last.pre /\ last.err # ""
       /\ last.ok => (IF last.op = "dist" THEN par.dist.made ELSE par.p.made)
  /\ last.op = "extract" =>
       /\ (last.failbit \/ last.thrown) => par.x = last.pre.x
       /\ ~(last.failbit \/ last.thrown) =>
            LowestTerms(<<last.stream[1].val, last.stream[2].val,
                          last.stream[3].val, last.stream[4].val>>, par.x)
       /\ par.p = last.pre.p /\ par.dist = last.pre.dist

C9_Witness ==
  /\ last.op = "extract" /\ last.thrown
  /\ last.stream = [i \in 1..4 |-> [int |-> TRUE, val |-> <<minint, 3, 1, 3>>[i]]]
  /\ par.x = [mu_num |-> -7, mu_den |-> 3, sigma_num |-> 10, sigma_den |-> 3]

C9_WitnessCtor ==
  /\ last.op = "dist" /\ ~last.ok
  /\ last.args = <<1, 3, 0, 1>>
  /\ ~par.dist.made

\* the errors init() reports for an overflow
OverflowErrors ==
  {"sigma or mu overflow", "possible overflow a", "possible overflow b",
   "possible overflow c"}

\* C10: with parameters that param_type accepts, construction of a sampler
\* succeeds only if max(2, _sig) * b * kmax is at most the largest long long,
\* and ceil(sigma) * kmax and |mu_int| + ceil(sigma) * kmax are at most the
\* largest int, with kmax = 51; when one of the three does not hold the
\* construction fails with an overflow error and there is no sampler.
C10_OverflowGuards ==
  (last.op = "dist" /\ last.err # "need sigma > 0") =>
    LET x == param_type(last.args).x
        g == GCD(x.mu_den, x.sigma_den)
        sig == x.sigma_num * (x.mu_den \div g)
        sigma_ceil == -((-x.sigma_num) \div x.sigma_den)
        mu_int == CDiv(x.mu_num, x.mu_den)
        fits == /\ Max2(2, sig) * b * kmax <= maxll
                /\ sigma_ceil * kmax <= maxint
                /\ Abs(mu_int) + sigma_ceil * kmax <= maxint
    IN /\ kmax = 51
       /\ last.ok => fits
       /\ ~fits => /\ ~last.ok /\ last.err \in OverflowErrors
                   /\ ~par.dist.made
       /\ last.ok => /\ par.dist.sig = sig /\ par.dist.isig = sigma_ceil
                     /\ par.dist.imu = mu_int

\* guard c alone fails: sigma = maxint/100, mu_den = 101
C10_Witness ==
  /\ last.op = "dist" /\ ~last.ok /\ last.err = "possible overflow c"
  /\ last.args = <<1, 101, maxint, 100>>
  /\ ~par.dist.made

C10_WitnessA ==
  /\ last.op = "dist" /\ ~last.ok /\ last.err = "possible overflow a"

C10_WitnessB ==
  /\ last.op = "dist" /\ ~last.ok /\ last.err = "possible overflow b"
  /\ last.args = <<3, 1, 10, 1>>

C10_WitnessOk ==
  /\ last.op = "dist" /\ last.ok
  /\ last.args = <<-7, 3, 10, 3>>

(***************************************************************************)
(* discrete_normal_dist: the sampler                                       *)
(***************************************************************************)
\* mutant: the bound is taken at h.min() alone
RECURSIVE u_rand_less_than_irand_min(_, _, _, _, _, _, _)
u_rand_less_than_irand_min(base, u, u0, c, v, hh, t) ==
  Let(u_rand_compare(base, u, u0 + i_rand_min(hh) * c - 1, u0 + i_rand_min(hh) * c, v, t),
      LAMBDA r :
  IF ~r.ok THEN [u |-> r.u, h |-> hh, t |-> <<>>, ok |-> FALSE, ret |-> FALSE]
  ELSE IF r.ret < 0 THEN [u |-> r.u, h |-> hh, t |-> r.t, ok |-> TRUE, ret |-> TRUE]
  ELSE IF r.ret > 0 THEN [u |-> r.u, h |-> hh, t |-> r.t, ok |-> TRUE, ret |-> FALSE]
  ELSE IF hh.l = 0 THEN [u |-> r.u, h |-> hh, t |-> <<>>, ok |-> FALSE, ret |-> FALSE]
  ELSE Let(i_rand_refine(base, hh, r.t), LAMBDA rr :
         IF ~rr.ok THEN [u |-> r.u, h |-> rr.h, t |-> <<>>, ok |-> FALSE, ret |-> FALSE]
         ELSE u_rand_less_than_irand_min(base, r.u, u0, c, v, rr.h, rr.t)))

\* u_rand::less_than(g, u0, c, v, h): *this < (u0 + h * c) / v.  compare
\* reads the digits of *this from the first one at every turn of the loop.
\* With h one integer and compare undecided the loop would never end.
RECURSIVE u_rand_less_than_irand(_, _, _, _, _, _, _)
u_rand_less_than_irand(base, u, u0, c, v, hh, t) ==
  Let(u_rand_compare(base, u, u0 + i_rand_min(hh) * c, u0 + i_rand_max(hh) * c, v, t),
      LAMBDA r :
  IF ~r.ok THEN [u |-> r.u, h |-> hh, t |-> <<>>, ok |-> FALSE, ret |-> FALSE]
  ELSE IF r.ret < 0 THEN [u |-> r.u, h |-> hh, t |-> r.t, ok |-> TRUE, ret |-> TRUE]
  ELSE IF r.ret > 0 THEN [u |-> r.u, h |-> hh, t |-> r.t, ok |-> TRUE, ret |-> FALSE]
  ELSE IF hh.l = 0 THEN [u |-> r.u, h |-> hh, t |-> <<>>, ok |-> FALSE, ret |-> FALSE]
  ELSE Let(i_rand_refine(base, hh, r.t), LAMBDA rr :
         IF ~rr.ok THEN [u |-> r.u, h |-> rr.h, t |-> <<>>, ok |-> FALSE, ret |-> FALSE]
         ELSE u_rand_less_than_irand(base, r.u, u0, c, v, rr.h, rr.t)))

\* discrete_normal_dist::H: the code of unit_normal_dist::H
discrete_H(base, y, z, t) == normal_H(base, y, z, t)

\* the loop of discrete_normal_dist::B at the head of round n
RECURSIVE discrete_B_loop(_, _, _, _, _, _, _, _, _)
discrete_B_loop(base, D, k, xn0, j, y, z, t, n) ==
  LET m == 2 * k + 2
      stop(jj, yy, zz, tt) == [h |-> jj, y |-> yy, z |-> zz, t |-> tt, ok |-> TRUE,
                               ret |-> (n % 2 = 0)]
      fail(jj, yy, zz) == [h |-> jj, y |-> yy, z |-> zz, t |-> <<>>, ok |-> FALSE,
                           ret |-> FALSE]
  IN
  \* f = k > 0 ? 0 : _z.init().compare(g, 1, 2, m); if (f < 0) break;
  Let(IF k > 0 THEN [u |-> z, t |-> t, ok |-> TRUE, ret |-> 0]
      ELSE u_rand_compare(base, u_rand_init, 1, 2, m, t),
      LAMBDA c1 :
  IF ~c1.ok THEN fail(j, y, c1.u)
  ELSE IF c1.ret < 0 THEN stop(j, y, c1.u, c1.t)
  ELSE
    \* _z.init();
    \* if (!(n ? _z.less_than(g, _y) : _z.less_than(g, xn0, _d, _sig, j))) break;
    Let(IF n # 0
        THEN Let(u_rand_less_than(u_rand_init, y, FALSE, c1.t), LAMBDA r :
               [z |-> r.u, y |-> r.v, h |-> j, t |-> r.t, ok |-> r.ok, ret |-> r.ret])
        ELSE Let(u_rand_less_than_irand(base, u_rand_init, xn0, D.d, D.sig, j, c1.t),
                 LAMBDA r :
               [z |-> r.u, y |-> y, h |-> r.h, t |-> r.t, ok |-> r.ok, ret |-> r.ret]),
        LAMBDA r1 :
    IF ~r1.ok THEN fail(r1.h, r1.y, r1.z)
    ELSE IF ~r1.ret THEN stop(r1.h, r1.y, r1.z, r1.t)
    ELSE
      \* f = k > 0 ? _y.init().compare(g, 1, 2, m) : f; if (f < 0) break;
      Let(IF k > 0 THEN u_rand_compare(base, u_rand_init, 1, 2, m, r1.t)
          ELSE [u |-> r1.y, t |-> r1.t, ok |-> TRUE, ret |-> c1.ret],
          LAMBDA c2 :
      IF ~c2.ok THEN fail(r1.h, c2.u, r1.z)
      ELSE IF c2.ret < 0 THEN stop(r1.h, c2.u, r1.z, c2.t)
      ELSE IF c2.ret = 0
        \* if (f == 0 && (!_y.init().less_than(g, xn0, _d, _sig, j))) break;
        \* _y.swap(_z);
        THEN Let(u_rand_less_than_irand(base, u_rand_init, xn0, D.d, D.sig, r1.h, c2.t),
                 LAMBDA r2 :
                   IF ~r2.ok THEN fail(r2.h, r2.u, r1.z)
                   ELSE IF ~r2.ret THEN stop(r2.h, r2.u, r1.z, r2.t)
                   ELSE discrete_B_loop(base, D, k, xn0, r2.h, r1.z, r2.u, r2.t, n + 1))
        ELSE discrete_B_loop(base, D, k, xn0, r1.h, r1.z, c2.u, c2.t, n + 1))))

\* discrete_normal_dist::B
discrete_B(base, D, k, xn0, j, y, z, t) ==
  discrete_B_loop(base, D, k, xn0, j, y, z, t, 0)

\* mutant: the sign is read from _j as the last call left it, j(g)
discrete_sign_stale(base, hh, t) == i_rand_call(base, hh, t)

\* j.init(g, 2)(g)
discrete_sign(base, hh, t) ==
  Let(i_rand_init(base, hh, 2, t), LAMBDA r :
    IF ~r.ok THEN [h |-> r.h, t |-> <<>>, ok |-> FALSE, ret |-> 0]
    ELSE i_rand_call(base, r.h, r.t))

\* mutant: x = 1 is not rejected
discrete_reject_le(base, D, k, s, xn0, hh, t) ==
  Let(i_rand_less_than_equal(base, hh, D.sig - xn0, D.d, t), LAMBDA r1 :
  IF ~r1.ok THEN [h |-> r1.h, t |-> <<>>, ok |-> FALSE, ret |-> FALSE]
  ELSE IF ~r1.ret THEN [h |-> r1.h, t |-> r1.t, ok |-> TRUE, ret |-> TRUE]
  ELSE IF k = 0 /\ s < 0
    THEN Let(i_rand_greater_than(base, r1.h, -xn0, D.d, r1.t), LAMBDA r2 :
           IF ~r2.ok THEN [h |-> r2.h, t |-> <<>>, ok |-> FALSE, ret |-> FALSE]
           ELSE [h |-> r2.h, t |-> r2.t, ok |-> TRUE, ret |-> ~r2.ret])
    ELSE [h |-> r1.h, t |-> r1.t, ok |-> TRUE, ret |-> FALSE])

\* mutant: k = 0, s < 0, x = 0 is not rejected
discrete_reject_keepzero(base, D, k, s, xn0, hh, t) ==
  Let(i_rand_less_than(base, hh, D.sig - xn0, D.d, t), LAMBDA r1 :
  IF ~r1.ok THEN [h |-> r1.h, t |-> <<>>, ok |-> FALSE, ret |-> FALSE]
  ELSE [h |-> r1.h, t |-> r1.t, ok |-> TRUE, ret |-> ~r1.ret])

\* the condition of the rejection of step 6:
\* !j.less_than(g, _sig - xn0, _d) ||
\* (k == 0 && s < 0 && !j.greater_than(g, -xn0, _d))
discrete_reject(base, D, k, s, xn0, hh, t) ==
  Let(i_rand_less_than(base, hh, D.sig - xn0, D.d, t), LAMBDA r1 :
  IF ~r1.ok THEN [h |-> r1.h, t |-> <<>>, ok |-> FALSE, ret |-> FALSE]
  ELSE IF ~r1.ret THEN [h |-> r1.h, t |-> r1.t, ok |-> TRUE, ret |-> TRUE]
  ELSE IF k = 0 /\ s < 0
    THEN Let(i_rand_greater_than(base, r1.h, -xn0, D.d, r1.t), LAMBDA r2 :
           IF ~r2.ok THEN [h |-> r2.h, t |-> <<>>, ok |-> FALSE, ret |-> FALSE]
           ELSE [h |-> r2.h, t |-> r2.t, ok |-> TRUE, ret |-> ~r2.ret])
    ELSE [h |-> r1.h, t |-> r1.t, ok |-> TRUE, ret |-> FALSE])

(***************************************************************************)
(* The discrete sampler: discrete_normal_dist::generate(g, j) step by      *)
(* step, a run of H or of B being one step.  par is the sampler as its     *)
(* constructor left it, h is j, ur holds _y and _z.  loc holds the locals  *)
(* k, n (of P), s, xn0, i0 and h (hh), the number of the iteration and the *)
(* runs of B in step 4 by result.                                          *)
(***************************************************************************)
DNames == {"y", "z"}
DKValues == {0, 1, 2}  \* the k that step 1 of the discrete sampler may count

\* the parameters of the samplers: mu = 0, sigma = 1; mu = 0, sigma = 3/2;
\* mu = 1/2, sigma = 3/2; mu = -7/3, sigma = 10/3
DParams ==
  {param_default,
   [mu_num |-> 0, mu_den |-> 1, sigma_num |-> 3, sigma_den |-> 2],
   [mu_num |-> 1, mu_den |-> 2, sigma_num |-> 3, sigma_den |-> 2],
   [mu_num |-> -7, mu_den |-> 3, sigma_num |-> 10, sigma_den |-> 3]}

DIteration(iter) ==
  [k |-> 0, n |-> 0, s |-> 0, xn0 |-> 0, i0 |-> 0, hh |-> 0, iter |-> iter,
   btrue |-> 0, bfail |-> 0]

\* j is the caller's i-rand: as constructed, or as an earlier use left it
InitDiscrete ==
  /\ b \in Bases
  /\ ur = [w \in DNames |-> u_rand_init]
  /\ h \in {i_rand_construct, [a |-> -3, d |-> 1, l |-> 0]}
  /\ pc = "idle"
  /\ loc = DIteration(0)
  /\ \E p \in DParams : par = discrete_init(b, p).dist
  /\ last = Idle

\* generate is called: for (;;) {
DStart ==
  /\ pc = "idle"
  /\ last = Idle
  /\ pc' = "step1"
  /\ loc' = DIteration(0)
  /\ UNCHANGED <<b, ur, h, par, last>>

\* step 1, G: while (H(g)) ++n; return n;
DG_H ==
  /\ pc = "step1"
  /\ \E t \in HTapes[b] :
       LET r == discrete_H(b, ur["y"], ur["z"], t) IN
       /\ r.ok /\ r.t = <<>>
       /\ \A u \in {r.y, r.z} : Len(u.d) <= MaxNDigits
       /\ r.ret => loc.k + 1 \in DKValues
       /\ ur' = [ur EXCEPT !["y"] = r.y, !["z"] = r.z]
       /\ IF r.ret
          THEN /\ loc' = [loc EXCEPT !.k = loc.k + 1]
               /\ pc' = "step1"
          ELSE /\ loc' = [loc EXCEPT !.n = loc.k * (loc.k - 1)]
               /\ pc' = "step2"
  /\ last' = Idle
  /\ UNCHANGED <<b, h, par>>

\* step 2, P: while (n-- && H(g)) with n != 0
DP_H ==
  /\ pc = "step2"
  /\ loc.n # 0
  /\ \E t \in HTapes[b] :
       LET r == discrete_H(b, ur["y"], ur["z"], t) IN
       /\ r.ok /\ r.t = <<>>
       /\ \A u \in {r.y, r.z} : Len(u.d) <= MaxNDigits
       /\ ur' = [ur EXCEPT !["y"] = r.y, !["z"] = r.z]
       /\ loc' = [loc EXCEPT !.n = loc.n - 1]
       /\ pc' = IF r.ret THEN "step2" ELSE "step2ret"
  /\ UNCHANGED <<b, h, par, last>>

\* step 2, P: while (n-- && H(g)) with n = 0
DP_Exit ==
  /\ pc = "step2"
  /\ loc.n = 0
  /\ loc' = [loc EXCEPT !.n = -1]
  /\ pc' = "step2ret"
  /\ UNCHANGED <<b, ur, h, par, last>>

\* return n < 0; if (!P(g, k * (k - 1))) continue;
DP_Ret ==
  /\ pc = "step2ret"
  /\ IF loc.n < 0
     THEN /\ loc' = loc
          /\ pc' = "sign"
     ELSE /\ loc.iter < MaxIter
          /\ loc' = DIteration(loc.iter + 1)
          /\ pc' = "step1"
  /\ UNCHANGED <<b, ur, h, par, last>>

\* int s = j.init(g,2)(g) ? -1 : 1; long long xn0 = _sig * k + s * _mu;
\* int i0 = int(iceil(xn0, _d)); xn0 = i0 * _d - xn0;
DSign ==
  /\ pc = "sign"
  /\ \E t \in ValidTapes(b, LAMBDA tt : discrete_sign(b, h, tt), <<>>, MaxIDraw) :
       LET r == discrete_sign(b, h, t)
           s == IF r.ret # 0 THEN -1 ELSE 1
           xn0 == par.sig * loc.k + s * par.mu
           i0 == ToInt(iceil(xn0, par.d))
       IN /\ h' = r.h
          /\ loc' = [loc EXCEPT !.s = s, !.i0 = i0, !.xn0 = i0 * par.d - xn0]
  /\ pc' = "initj"
  /\ UNCHANGED <<b, ur, par, last>>

\* j.init(g, _isig);
DInitJ ==
  /\ pc = "initj"
  /\ \E t \in ValidTapes(b, LAMBDA tt : i_rand_init(b, h, par.isig, tt), <<>>, MaxIDraw) :
       h' = i_rand_init(b, h, par.isig, t).h
  /\ pc' = "test"
  /\ UNCHANGED <<b, ur, loc, par, last>>

\* if (!j.less_than(...) || (k == 0 && s < 0 && !j.greater_than(...))) continue;
\* int h = k + 1;
DTest ==
  /\ pc = "test"
  /\ \E t \in ValidTapes(b, LAMBDA tt : discrete_reject(b, par, loc.k, loc.s, loc.xn0, h, tt),
                          <<>>, MaxIDraw) :
       LET r == discrete_reject(b, par, loc.k, loc.s, loc.xn0, h, t) IN
       /\ h' = r.h
       /\ last' = [op |-> "test", pre |-> h, drawn |-> t, rejected |-> r.ret,
                   k |-> loc.k, s |-> loc.s, xn0 |-> loc.xn0, iter |-> loc.iter]
       /\ IF r.ret
          THEN /\ loc.iter < MaxIter
               /\ loc' = DIteration(loc.iter + 1)
               /\ pc' = "step1"
          ELSE /\ loc' = [loc EXCEPT !.hh = loc.k + 1]
               /\ pc' = "step4"
  /\ UNCHANGED <<b, ur, par>>

\* step 4: while (h-- && B(g, k, xn0, j)) with h != 0
DB_Run ==
  /\ pc = "step4"
  /\ loc.hh # 0
  /\ \E t \in ValidTapes(b, LAMBDA tt : discrete_B(b, par, loc.k, loc.xn0, h,
                                                  ur["y"], ur["z"], tt),
                          <<>>, MaxBDraw) :
       LET r == discrete_B(b, par, loc.k, loc.xn0, h, ur["y"], ur["z"], t) IN
       /\ \A u \in {r.y, r.z} : Len(u.d) <= MaxNDigits
       /\ ur' = [ur EXCEPT !["y"] = r.y, !["z"] = r.z]
       /\ h' = r.h
       /\ loc' = [loc EXCEPT !.hh = loc.hh - 1,
                             !.btrue = IF r.ret THEN @ + 1 ELSE @,
                             !.bfail = IF r.ret THEN @ ELSE @ + 1]
       /\ pc' = IF r.ret THEN "step4" ELSE "step4ret"
  /\ last' = Idle
  /\ UNCHANGED <<b, par>>

\* step 4: while (h-- && B(g, k, xn0, j)) with h = 0
DB_Exit ==
  /\ pc = "step4"
  /\ loc.hh = 0
  /\ loc' = [loc EXCEPT !.hh = -1]
  /\ pc' = "step4ret"
  /\ last' = Idle
  /\ UNCHANGED <<b, ur, h, par>>

\* if (!(h < 0)) continue; j.add(i0 + s*_imu); if (s < 0) j.negate(); return;
DB_Ret ==
  /\ pc = "step4ret"
  /\ IF loc.hh < 0
     THEN /\ h' = LET j == i_rand_add(h, ToInt(loc.i0 + loc.s * par.imu)) IN
                  IF loc.s < 0 THEN i_rand_negate(j) ELSE j
          /\ loc' = loc
          /\ pc' = "idle"
          /\ last' = [op |-> "generate", pre |-> h]
     ELSE /\ loc.iter < MaxIter
          /\ h' = h
          /\ loc' = DIteration(loc.iter + 1)
          /\ pc' = "step1"
          /\ last' = Idle
  /\ UNCHANGED <<b, ur, par>>

NextDiscrete ==
  \/ DStart
  \/ DG_H
  \/ DP_H
  \/ DP_Exit
  \/ DP_Ret
  \/ DSign
  \/ DInitJ
  \/ DTest
  \/ DB_Run
  \/ DB_Exit
  \/ DB_Ret

SpecDiscrete == InitDiscrete /\ [][NextDiscrete]_vars

\* the i-rand hh after the digits t have refined it
RefinedBy(base, hh, t) ==
  LET d == hh.d \div Pow(base, Len(t)) IN
  [a |-> hh.a + DigitsValue(t, base) * d, d |-> d, l |-> hh.l - Len(t)]

\* a candidate with the integer i for h is to be rejected: x >= 1, or k = 0,
\* s_sign = -1 and x = 0, for x = (xn0 + i * _d) / _sig
ToReject(D, k, s, xn0, i) ==
  \/ xn0 + i * D.d >= D.sig
  \/ (k = 0 /\ s = -1 /\ xn0 + i * D.d = 0)

\* C7: after the test of step 6 the candidate is rejected, and generate is
\* back at step 1 in a new iteration, exactly when x >= 1, or k = 0,
\* s_sign = -1 and x = 0, for every integer left in the range of h; otherwise
\* generate is at step 4 with k + 1 runs of B to make, and it returns only
\* after k + 1 runs of B returned true.  The test only refines h, and before
\* the last digit it drew the integers in the range of h did not agree on the
\* verdict.
C7_Step6Rejection ==
  /\ last.op = "test" =>
       /\ \A i \in i_rand_min(h)..i_rand_max(h) :
            /\ ToReject(par, last.k, last.s, last.xn0, i) = last.rejected
            /\ 0 <= i /\ i < par.isig
            /\ last.xn0 + i * par.d >= 0
       /\ last.rejected => pc = "step1" /\ loc = DIteration(last.iter + 1)
       /\ ~last.rejected =>
            /\ pc = "step4" /\ loc.hh = last.k + 1 /\ loc.btrue = 0
            /\ loc.k = last.k /\ loc.s = last.s /\ loc.xn0 = last.xn0
       /\ Len(last.drawn) <= last.pre.l
       /\ h = RefinedBy(b, last.pre, last.drawn)
       /\ last.drawn # <<>> =>
            LET hp == RefinedBy(b, last.pre, SubSeq(last.drawn, 1, Len(last.drawn) - 1)) IN
            \E i1, i2 \in i_rand_min(hp)..i_rand_max(hp) :
              ToReject(par, last.k, last.s, last.xn0, i1)
                # ToReject(par, last.k, last.s, last.xn0, i2)
  /\ pc \in {"step4", "step4ret"} => loc.btrue + loc.bfail + loc.hh = loc.k + 1
                                     \/ (loc.hh = -1 /\ loc.btrue = loc.k + 1)
  /\ (pc = "idle" /\ last.op = "generate") =>
       /\ loc.btrue = loc.k + 1 /\ loc.bfail = 0
       /\ \A i \in i_rand_min(last.pre)..i_rand_max(last.pre) :
            ~ToReject(par, loc.k, loc.s, loc.xn0, i)

\* rejected for k = 0, s_sign = -1, x = 0 after h was refined
C7_Witness ==
  /\ last.op = "test" /\ last.rejected /\ last.drawn # <<>>
  /\ last.k = 0 /\ last.s = -1 /\ last.xn0 = 0 /\ h.a = 0 /\ h.d = 1
  /\ par.sig > par.d

\* rejected for x >= 1 after h was refined
C7_WitnessOne ==
  /\ last.op = "test" /\ last.rejected /\ last.drawn # <<>>
  /\ last.xn0 + h.a * par.d >= par.sig

\* not rejected after h was refined, for a negative mu
C7_WitnessPass ==
  /\ last.op = "test" /\ ~last.rejected /\ last.drawn # <<>>
  /\ par.mu < 0 /\ last.k = 1

(***************************************************************************)
(* The digit sources: rand_digit<b> over a word generator and rand_table   *)
(* over table_gen.  The words of a 32-bit generator are modelled with      *)
(* WordBits bits, those of a 64-bit generator with twice as many, uint_t   *)
(* with UintBits bits.  loc holds the source: _count, the seed and the     *)
(* position of table_gen, and the number of digits returned so far.        *)
(***************************************************************************)
WordBits == 4      \* width of the words of the 32-bit generator
UintBits == 16     \* width of uint_t
MaxCount == 4      \* calls of the draw operation in one behaviour
MaxSeed == 3       \* length of the seed of table_gen

\* digit_arithmetic<b>::basem1, ::bits and ::power_of_two for the base
basem1(base) == base - 1
RECURSIVE highest_bit_idx(_)
highest_bit_idx(x) == IF x = 0 THEN 0 ELSE 1 + highest_bit_idx(x \div 2)
bits(base) == highest_bit_idx(basem1(base))
power_of_two(base) == basem1(base) = Pow(2, bits(base)) - 1

\* conversion to uint_t
ToUint(x) == x % Pow(2, UintBits)

\* the word generators by the width of their words; "other" has min() # 0
Generators == {"w32", "w64", "other"}
GenWords(gen) ==
  IF gen = "w32" THEN 0..(Pow(2, WordBits) - 1)
  ELSE IF gen = "w64" THEN 0..(Pow(2, 2 * WordBits) - 1)
  ELSE 1..(Pow(2, WordBits) - 2)

\* the digit is cut from one word of the generator
UsesWord(base, gen) == power_of_two(base) /\ gen \in {"w32", "w64"}

\* rand_digit::operator() on the word w = g(); u is what
\* std::uniform_int_distribution returns for the range [min_value, max_value]
rand_digit_call(base, gen, count, w, u) ==
  [count |-> count + 1,
   ok |-> TRUE,
   val |-> IF power_of_two(base) /\ gen = "w32"
           THEN ToUint(w \div Pow(2, WordBits - bits(base)))
           ELSE IF power_of_two(base) /\ gen = "w64"
           THEN ToUint((w % Pow(2, WordBits)) \div Pow(2, WordBits - bits(base)))
           ELSE u]

\* mutant: a seed that is used up is read again from its first digit
table_gen_call_wrap(seed, pos) ==
  IF Len(seed) = 0
  THEN [ok |-> FALSE, err |-> "table_gen: overflow", pos |-> pos, val |-> 0]
  ELSE [ok |-> TRUE, err |-> "", pos |-> (pos % Len(seed)) + 1,
        val |-> Min2(ToUint(seed[(pos % Len(seed)) + 1]), ToUint(9))]

\* table_gen::operator(): a character of the seed is given by its code less '0'
table_gen_call(seed, pos) ==
  IF pos >= Len(seed)
  THEN [ok |-> FALSE, err |-> "table_gen: overflow", pos |-> pos, val |-> 0]
  ELSE [ok |-> TRUE, err |-> "", pos |-> pos + 1,
        val |-> Min2(ToUint(seed[pos + 1]), ToUint(9))]

\* rand_table::operator(): { ++_count; return g(); }
rand_table_call(count, seed, pos) ==
  LET r == table_gen_call(seed, pos) IN
  [count |-> count + 1, ok |-> r.ok, val |-> r.val, pos |-> r.pos]

\* the bases of rand_digit: 2^WordBits stands for the base of a whole word
DigitBases == {2, 3, 4, 10, Pow(2, WordBits)}
\* the characters of a seed, less '0': ' ', '0', '3', '9', 'A'
SeedChars == {-16, 0, 3, 9, 17}
Seeds == UNION {[1..n -> SeedChars] : n \in 0..MaxSeed}

InitDigit ==
  /\ ur = [w \in UNames |-> u_rand_init]
  /\ h = i_rand_construct
  /\ pc = "idle"
  /\ \/ /\ b \in DigitBases
        /\ \E gen \in Generators : par = [source |-> "rand_digit", gen |-> gen]
        /\ loc = [count |-> 0, returned |-> 0, seed |-> <<>>, pos |-> 0]
     \/ /\ b = 10
        /\ par = [source |-> "rand_table", gen |-> "table_gen"]
        /\ \E seed \in Seeds :
             loc = [count |-> 0, returned |-> 0, seed |-> seed, pos |-> 0]
  /\ last = Idle

\* d = D(g) with D a rand_digit<b>
DrawDigit ==
  /\ par.source = "rand_digit"
  /\ loc.count < MaxCount
  /\ \E w \in (IF UsesWord(b, par.gen) THEN GenWords(par.gen) ELSE {0}),
        u \in (IF UsesWord(b, par.gen) THEN {0} ELSE 0..basem1(b)) :
       LET r == rand_digit_call(b, par.gen, loc.count, w, u) IN
       /\ loc' = [loc EXCEPT !.count = r.count, !.returned = @ + 1]
       /\ last' = [op |-> "draw", pre |-> loc, ok |-> TRUE, d |-> r.val]
  /\ UNCHANGED <<b, ur, h, pc, par>>

\* d = D(g) with D a rand_table and g a table_gen
DrawTable ==
  /\ par.source = "rand_table"
  /\ loc.count < MaxCount
  /\ LET r == rand_table_call(loc.count, loc.seed, loc.pos) IN
     /\ loc' = [loc EXCEPT !.count = r.count, !.pos = r.pos,
                           !.returned = IF r.ok THEN @ + 1 ELSE @]
     /\ last' = [op |-> "draw", pre |-> loc, ok |-> r.ok, d |-> r.val]
  /\ UNCHANGED <<b, ur, h, pc, par>>

\* n = D.count()
DCount ==
  /\ last.op # "count"
  /\ last' = [op |-> "count", pre |-> loc, ok |-> TRUE, d |-> loc.count]
  /\ UNCHANGED <<b, ur, h, pc, loc, par>>

NextDigit ==
  \/ DrawDigit
  \/ DrawTable
  \/ DCount

SpecDigit == InitDigit /\ [][NextDigit]_vars

\* C11: every call of the draw operation returns a digit d with 0 <= d < b
\* and increases count() by exactly one; count() never decreases and always
\* equals the number of digits returned since construction.
C11_DigitCount ==
  /\ last.op = "draw" =>
       /\ last.ok /\ 0 <= last.d /\ last.d < b
       /\ loc.count = last.pre.count + 1
  /\ last.op = "count" => last.d = loc.returned
  /\ loc.count = loc.returned

\* what holds of the draw operation: a call that returns returns a digit of
\* [0, b); every call, returning or not, adds one to count()
DrawReturnsDigit ==
  /\ last.op = "draw" =>
       /\ last.ok => 0 <= last.d /\ last.d < b
       /\ last.ok => loc.returned = last.pre.returned + 1
       /\ loc.count = last.pre.count + 1
  /\ loc.count >= loc.returned

(***************************************************************************)
(* generate as one operation on the digits to come.  A sampler is the      *)
(* record of its u-rands and i-rand: x and j are the objects generate      *)
(* sets, y, z (normal, discrete normal), v, w (exponential) its scratch.   *)
(***************************************************************************)
MaxGenDraw == 4    \* digits one call of generate may draw

\* a sampler as its constructor leaves it
FreshSampler ==
  [x |-> u_rand_init, y |-> u_rand_init, z |-> u_rand_init,
   v |-> u_rand_init, w |-> u_rand_init, j |-> i_rand_construct]

\* unit_uniform_dist::generate: x.init()
uniform_generate(S, t) == [s |-> [S EXCEPT !.x = u_rand_init], t |-> t, ok |-> TRUE]

\* unit_exponential_dist::generate from the head of while (!F(g, x)) ++k;
RECURSIVE exp_generate_loop(_, _, _, _, _)
exp_generate_loop(base, bit_optimized, S, t, k) ==
  Let(exp_F(base, bit_optimized, S.x, S.v, S.w, t), LAMBDA r :
  IF ~r.ok THEN [s |-> [S EXCEPT !.x = r.p, !.v = r.v, !.w = r.w], t |-> <<>>, ok |-> FALSE]
  ELSE IF ~r.ret
    THEN exp_generate_loop(base, bit_optimized, [S EXCEPT !.x = r.p, !.v = r.v, !.w = r.w],
                           r.t, k + 1)
  ELSE [s |-> [S EXCEPT !.x = exp_finish(base, bit_optimized, k, r.p),
                        !.v = r.v, !.w = r.w],
        t |-> r.t, ok |-> TRUE])

\* unit_exponential_dist::generate
exp_generate(base, bit_optimized, S, t) == exp_generate_loop(base, bit_optimized, S, t, 0)

\* unit_normal_dist::G, discrete_normal_dist::G: while (H(g)) ++n; return n;
RECURSIVE normal_G(_, _, _, _, _)
normal_G(base, y, z, t, n) ==
  Let(normal_H(base, y, z, t), LAMBDA r :
  IF ~r.ok THEN [y |-> r.y, z |-> r.z, t |-> <<>>, ok |-> FALSE, ret |-> n]
  ELSE IF r.ret THEN normal_G(base, r.y, r.z, r.t, n + 1)
  ELSE [y |-> r.y, z |-> r.z, t |-> r.t, ok |-> TRUE, ret |-> n])

\* unit_normal_dist::P, discrete_normal_dist::P:
\* while (n-- && H(g)) {}; return n < 0;
RECURSIVE normal_P(_, _, _, _, _)
normal_P(base, y, z, t, n) ==
  IF n = 0 THEN [y |-> y, z |-> z, t |-> t, ok |-> TRUE, ret |-> TRUE]
  ELSE Let(normal_H(base, y, z, t), LAMBDA r :
         IF ~r.ok THEN [y |-> r.y, z |-> r.z, t |-> <<>>, ok |-> FALSE, ret |-> FALSE]
         ELSE IF r.ret THEN normal_P(base, r.y, r.z, r.t, n - 1)
         ELSE [y |-> r.y, z |-> r.z, t |-> r.t, ok |-> TRUE, ret |-> FALSE])

\* step 4 of unit_normal_dist::generate: while (j-- && B(g, k, x)) {}; j < 0
RECURSIVE normal_step4(_, _, _, _, _, _, _)
normal_step4(base, k, x, y, z, t, j) ==
  IF j = 0 THEN [x |-> x, y |-> y, z |-> z, t |-> t, ok |-> TRUE, ret |-> TRUE]
  ELSE Let(normal_B(base, k, x, y, z, t), LAMBDA r :
         IF ~r.ok \/ ~r.ret THEN r
         ELSE normal_step4(base, k, r.x, r.y, r.z, r.t, j - 1))

\* unit_normal_dist::generate
RECURSIVE normal_generate(_, _, _)
normal_generate(base, S, t) ==
  \* int k = G(g);
  Let(normal_G(base, S.y, S.z, t, 0), LAMBDA g1 :
  IF ~g1.ok THEN [s |-> [S EXCEPT !.y = g1.y, !.z = g1.z], t |-> <<>>, ok |-> FALSE]
  ELSE
    \* if (!P(g, k * (k - 1))) continue;
    Let(normal_P(base, g1.y, g1.z, g1.t, g1.ret * (g1.ret - 1)), LAMBDA p2 :
    IF ~p2.ok THEN [s |-> [S EXCEPT !.y = p2.y, !.z = p2.z], t |-> <<>>, ok |-> FALSE]
    ELSE IF ~p2.ret THEN normal_generate(base, [S EXCEPT !.y = p2.y, !.z = p2.z], p2.t)
    ELSE
      \* x.init(); int j = k + 1; while (j-- && B(g, k, x)) {};
      Let(normal_step4(base, g1.ret, normal_step3(S.x), p2.y, p2.z, p2.t, g1.ret + 1),
          LAMBDA b4 :
      IF ~b4.ok
      THEN [s |-> [S EXCEPT !.x = b4.x, !.y = b4.y, !.z = b4.z], t |-> <<>>, ok |-> FALSE]
      \* if (!(j < 0)) continue;
      ELSE IF ~b4.ret
      THEN normal_generate(base, [S EXCEPT !.x = b4.x, !.y = b4.y, !.z = b4.z], b4.t)
      ELSE
        \* x.set_integer(k); if (_y.init().less_than_half(g)) x.negate(); return;
        Let(u_rand_less_than_half(base, u_rand_init, b4.t), LAMBDA r6 :
          [s |-> [S EXCEPT !.x = IF r6.ok /\ r6.ret
                                 THEN u_rand_negate(u_rand_set_integer(b4.x, g1.ret))
                                 ELSE u_rand_set_integer(b4.x, g1.ret),
                           !.y = r6.u, !.z = b4.z],
           t |-> r6.t, ok |-> r6.ok]))))

\* step 4 of discrete_normal_dist::generate:
\* while (h-- && B(g, k, xn0, j)) {}; h < 0
RECURSIVE discrete_step4(_, _, _, _, _, _, _, _, _)
discrete_step4(base, D, k, xn0, j, y, z, t, hh) ==
  IF hh = 0 THEN [h |-> j, y |-> y, z |-> z, t |-> t, ok |-> TRUE, ret |-> TRUE]
  ELSE Let(discrete_B(base, D, k, xn0, j, y, z, t), LAMBDA r :
         IF ~r.ok \/ ~r.ret THEN r
         ELSE discrete_step4(base, D, k, xn0, r.h, r.y, r.z, r.t, hh - 1))

\* discrete_normal_dist::generate from int s = j.init(g,2)(g) ? -1 : 1; to the
\* end of the iteration; ret is FALSE for continue
discrete_candidate(base, D, k, S, t) ==
  Let(discrete_sign(base, S.j, t), LAMBDA r1 :
  IF ~r1.ok THEN [s |-> [S EXCEPT !.j = r1.h], t |-> <<>>, ok |-> FALSE, ret |-> FALSE]
  ELSE
    LET s == IF r1.ret # 0 THEN -1 ELSE 1
        xn == D.sig * k + s * D.mu
        i0 == ToInt(iceil(xn, D.d))
        xn0 == i0 * D.d - xn
    IN
    Let(i_rand_init(base, r1.h, D.isig, r1.t), LAMBDA r2 :
    IF ~r2.ok THEN [s |-> [S EXCEPT !.j = r2.h], t |-> <<>>, ok |-> FALSE, ret |-> FALSE]
    ELSE
      Let(discrete_reject(base, D, k, s, xn0, r2.h, r2.t), LAMBDA r3 :
      IF ~r3.ok THEN [s |-> [S EXCEPT !.j = r3.h], t |-> <<>>, ok |-> FALSE, ret |-> FALSE]
      ELSE IF r3.ret THEN [s |-> [S EXCEPT !.j = r3.h], t |-> r3.t, ok |-> TRUE, ret |-> FALSE]
      ELSE
        Let(discrete_step4(base, D, k, xn0, r3.h, S.y, S.z, r3.t, k + 1), LAMBDA b4 :
        IF ~b4.ok \/ ~b4.ret
        THEN [s |-> [S EXCEPT !.j = b4.h, !.y = b4.y, !.z = b4.z], t |-> b4.t,
              ok |-> b4.ok, ret |-> FALSE]
        ELSE LET jj == i_rand_add(b4.h, ToInt(i0 + s * D.imu)) IN
             [s |-> [S EXCEPT !.j = IF s < 0 THEN i_rand_negate(jj) ELSE jj,
                              !.y = b4.y, !.z = b4.z],
              t |-> b4.t, ok |-> TRUE, ret |-> TRUE]))))

\* discrete_normal_dist::generate
RECURSIVE discrete_generate(_, _, _, _)
discrete_generate(base, D, S, t) ==
  Let(normal_G(base, S.y, S.z, t, 0), LAMBDA g1 :
  IF ~g1.ok THEN [s |-> [S EXCEPT !.y = g1.y, !.z = g1.z], t |-> <<>>, ok |-> FALSE]
  ELSE
    Let(normal_P(base, g1.y, g1.z, g1.t, g1.ret * (g1.ret - 1)), LAMBDA p2 :
    IF ~p2.ok THEN [s |-> [S EXCEPT !.y = p2.y, !.z = p2.z], t |-> <<>>, ok |-> FALSE]
    ELSE IF ~p2.ret THEN discrete_generate(base, D, [S EXCEPT !.y = p2.y, !.z = p2.z], p2.t)
    ELSE
      Let(discrete_candidate(base, D, g1.ret, [S EXCEPT !.y = p2.y, !.z = p2.z], p2.t),
          LAMBDA c :
      IF ~c.ok THEN [s |-> c.s, t |-> <<>>, ok |-> FALSE]
      ELSE IF ~c.ret THEN discrete_generate(base, D, c.s, c.t)
      ELSE [s |-> c.s, t |-> c.t, ok |-> TRUE])))

\* discrete_normal_dist::operator(): generate(g, _j); return _j(g);
discrete_call(base, D, S, t) ==
  Let(discrete_generate(base, D, S, t), LAMBDA r :
  IF ~r.ok THEN r
  ELSE Let(i_rand_call(base, r.s.j, r.t), LAMBDA c :
         [s |-> [r.s EXCEPT !.j = c.h], t |-> c.t, ok |-> c.ok]))

\* generate of the sampler of the kind and parameters P
Generate(base, P, S, t) ==
  IF P.kind = "uniform" THEN uniform_generate(S, t)
  ELSE IF P.kind = "exponential" THEN exp_generate(base, P.bit_optimized, S, t)
  ELSE IF P.kind = "normal" THEN normal_generate(base, S, t)
  ELSE discrete_call(base, P.dist, S, t)

(***************************************************************************)
(* Two samplers of one kind and with the same parameters.  The first is in *)
(* ur and h, the second in loc.  The first may have been used before       *)
(* (TwinOne); from then on every call is made on both with the same digits *)
(* (TwinBoth).                                                             *)
(***************************************************************************)
TNames == {"x", "y", "z", "v", "w"}

\* the first sampler as a record
Sampler1 ==
  [x |-> ur["x"], y |-> ur["y"], z |-> ur["z"], v |-> ur["v"], w |-> ur["w"], j |-> h]

\* the kinds of sampler with their parameters, per base
TwinKinds(base) ==
  {[kind |-> "uniform", bit_optimized |-> FALSE, dist |-> NoDist],
   [kind |-> "normal", bit_optimized |-> FALSE, dist |-> NoDist],
   [kind |-> "exponential", bit_optimized |-> FALSE, dist |-> NoDist]}
  \cup (IF base % 2 = 0
        THEN {[kind |-> "exponential", bit_optimized |-> TRUE, dist |-> NoDist]}
        ELSE {})
  \cup {[kind |-> "discrete", bit_optimized |-> FALSE, dist |-> discrete_init(base, p).dist] :
          p \in DParams}

InitTwin ==
  /\ b \in Bases
  /\ ur = [w \in TNames |-> u_rand_init]
  /\ h = i_rand_construct
  /\ pc = "idle"
  /\ loc = [s2 |-> FreshSampler, calls |-> 0]
  /\ par \in TwinKinds(b)
  /\ last = Idle

\* the u-rands of the sampler S hold at most MaxDigits digits
SmallSampler(S) == \A w \in TNames : Len(S[w].d) <= MaxDigits

\* an earlier call of generate on the first sampler alone
TwinOne ==
  /\ last = Idle
  /\ \E t \in ValidTapes(b, LAMBDA tt : Generate(b, par, Sampler1, tt), <<>>, MaxGenDraw) :
       LET r == Generate(b, par, Sampler1, t) IN
       /\ SmallSampler(r.s)
       /\ ur' = [w \in TNames |-> r.s[w]]
       /\ h' = r.s.j
  /\ UNCHANGED <<b, pc, loc, par, last>>

\* a call of generate on each sampler, with the same digits to come: a first
\* call and a second one
TwinBoth ==
  /\ loc.calls < 2
  /\ \E t \in ValidTapes(b, LAMBDA tt : Generate(b, par, Sampler1, tt), <<>>, MaxGenDraw) :
       LET r1 == Generate(b, par, Sampler1, t)
           r2 == Generate(b, par, loc.s2, t)
       IN /\ SmallSampler(r1.s)
          /\ ur' = [w \in TNames |-> r1.s[w]]
          /\ h' = r1.s.j
          /\ loc' = [s2 |-> r2.s, calls |-> loc.calls + 1]
          /\ last' = [op |-> "both", pre1 |-> Sampler1, pre2 |-> loc.s2, drawn |-> t,
                      ok2 |-> r2.ok, left2 |-> r2.t]
  /\ UNCHANGED <<b, pc, par>>

NextTwin ==
  \/ TwinOne
  \/ TwinBoth

SpecTwin == InitTwin /\ [][NextTwin]_vars

\* C12: when two samplers of the same kind and parameters are given the same
\* digits, the second returns on exactly the digits the first returns on, and
\* the u-rands (uniform, exponential, normal) or integers (discrete normal)
\* they return are equal, after each of the successive calls and whatever
\* earlier calls left in the u-rands and the i-rand of the first.
C12_FunctionOfDigits ==
  last.op = "both" =>
    /\ last.ok2 /\ last.left2 = <<>>
    /\ IF par.kind = "discrete" THEN h = loc.s2.j ELSE ur["x"] = loc.s2.x

\* a normal sampler used before and a fresh one, second call on both
C12_Witness ==
  /\ last.op = "both" /\ par.kind = "normal"
  /\ last.pre1.y # last.pre2.y
  /\ Len(last.drawn) >= 4

C12_WitnessSecond ==
  /\ last.op = "both" /\ loc.calls = 2
  /\ par.kind = "discrete" /\ h.a # 0

C12_WitnessExp ==
  /\ last.op = "both" /\ par.kind = "exponential" /\ par.bit_optimized
  /\ last.pre1.w # last.pre2.w /\ ur["x"].n = 1

(***************************************************************************)
(* u_rand::less_than(g, u0, c, v, h): a u-rand x with sign +1 and an       *)
(* i-rand h, each brought to some state by its own operations, then one    *)
(* call of x.less_than(g, u0, c, v, h) with the arguments in par.          *)
(***************************************************************************)
MaxLDraw == 3      \* digits one call of less_than(g, u0, c, v, h) may draw

\* the arguments u0, c, v of the call: v > 0, c > 0
LessArgs == [u0 : {-2, 0, 1, 3}, c : {1, 2}, v : {1, 2, 3}]

InitLess ==
  /\ b \in Bases
  /\ ur = [w \in {"x"} |-> u_rand_init]
  /\ h = i_rand_construct
  /\ pc = "idle"
  /\ loc = <<>>
  /\ par \in LessArgs
  /\ last = Idle

\* x.digit(g, k) for the next position k
LXDigit ==
  /\ last = Idle
  /\ Len(ur["x"].d) < MaxDigits
  /\ \E dg \in 0..(b - 1) :
       ur' = [ur EXCEPT !["x"] = u_rand_digit(@, Len(@.d), <<dg>>).u]
  /\ UNCHANGED <<b, h, pc, loc, par, last>>

\* x.set_integer(n)
LXSetInteger ==
  /\ last = Idle
  /\ ur["x"].n = 0
  /\ \E n \in 1..MaxInt : ur' = [ur EXCEPT !["x"] = u_rand_set_integer(@, n)]
  /\ UNCHANGED <<b, h, pc, loc, par, last>>

\* h.init(g, m)
LHInit ==
  /\ last = Idle
  /\ h = i_rand_construct
  /\ \E m \in 2..MaxM : \E run \in IRandInitRuns[b][m] : h' = run.r.h
  /\ UNCHANGED <<b, ur, pc, loc, par, last>>

\* h.add(c)
LHAdd ==
  /\ last = Idle
  /\ h.a >= 0
  /\ h' = i_rand_add(h, -1 - h.a)
  /\ UNCHANGED <<b, ur, pc, loc, par, last>>

\* x.less_than(g, u0, c, v, h)
LLessThan ==
  /\ last = Idle
  /\ \E t \in ValidTapes(b, LAMBDA tt : u_rand_less_than_irand(b, ur["x"], par.u0, par.c,
                                                             par.v, h, tt),
                         <<>>, MaxLDraw) :
       LET r == u_rand_less_than_irand(b, ur["x"], par.u0, par.c, par.v, h, t) IN
       /\ ur' = [ur EXCEPT !["x"] = r.u]
       /\ h' = r.h
       /\ last' = [op |-> "less_than_i", pre |-> ur["x"], preh |-> h, ret |-> r.ret,
                   drawn |-> t]
  /\ UNCHANGED <<b, pc, loc, par>>

NextLess ==
  \/ LXDigit
  \/ LXSetInteger
  \/ LHInit
  \/ LHAdd
  \/ LLessThan

SpecLess == InitLess /\ [][NextLess]_vars

\* C13: for v > 0 and c > 0, when x.less_than(g, u0, c, v, h) returns on a
\* u-rand x of sign +1, true means x < (u0 + c*j)/v and false means
\* x >= (u0 + c*j)/v, for every real x of the interval x then denotes and
\* every integer j of h.min()..h.max(); the range of h is within its range at
\* the call, and x has its sign, its integer part and its digits of before,
\* followed by the digits it gained.
C13_LessThanIRand ==
  last.op = "less_than_i" =>
    LET x == ur["x"]
        den == UDen(x)
    IN
    /\ \A j \in i_rand_min(h)..i_rand_max(h) :
         IF last.ret THEN UHi(x) * par.v <= (par.u0 + par.c * j) * den
         ELSE ULo(x) * par.v >= (par.u0 + par.c * j) * den
    /\ i_rand_min(last.preh) <= i_rand_min(h)
    /\ i_rand_max(h) <= i_rand_max(last.preh)
    /\ i_rand_min(h) <= i_rand_max(h)
    /\ x.s = last.pre.s /\ x.n = last.pre.n /\ IsPrefix(last.pre.d, x.d)

\* true returned after h was refined and x gained a digit
C13_Witness ==
  /\ last.op = "less_than_i" /\ last.ret
  /\ h.l < last.preh.l /\ h.d > 1
  /\ Len(ur["x"].d) > Len(last.pre.d)
  /\ par.c = 2 /\ par.v = 3

\* false returned for an h below zero, after h was refined
C13_WitnessFalse ==
  /\ last.op = "less_than_i" /\ ~last.ret
  /\ h.l < last.preh.l /\ h.a < 0
  /\ ur["x"].n = 1

(***************************************************************************)
(* i_rand comparisons with a fraction m/n, on the i-rand machine           *)
(***************************************************************************)
IComparisons == {"less_than", "less_than_equal", "greater_than", "greater_than_equal"}

\* the truth of j < m/n, j <= m/n, j > m/n, j >= m/n for n > 0
Holds(op, j, m, n) ==
  IF op = "less_than" THEN j * n < m
  ELSE IF op = "less_than_equal" THEN j * n <= m
  ELSE IF op = "greater_than" THEN j * n > m
  ELSE j * n >= m

\* the integers of the range of hh do not agree on the comparison
Straddles(op, hh, m, n) ==
  \E i1, i2 \in i_rand_min(hh)..i_rand_max(hh) : Holds(op, i1, m, n) # Holds(op, i2, m, n)

\* the comparison op on hh returns on every sequence of hh.l digits
ReturnsWithinEntropy(op, hh, m, n) ==
  \A t \in TapesOfLen(b, hh.l) :
    IF op = "less_than" THEN i_rand_less_than(b, hh, m, n, t).ok
    ELSE IF op = "less_than_equal" THEN i_rand_less_than_equal(b, hh, m, n, t).ok
    ELSE IF op = "greater_than" THEN i_rand_greater_than(b, hh, m, n, t).ok
    ELSE i_rand_greater_than_equal(b, hh, m, n, t).ok

\* C14: for n > 0 each of less_than, less_than_equal, greater_than and
\* greater_than_equal returns the truth of j < m/n, j <= m/n, j > m/n,
\* j >= m/n for every integer j of the range the i-rand has at return; it
\* refines the i-rand, one digit at a time, at most entropy() times, each time
\* with a range whose integers do not agree on the comparison; and from every
\* state of the i-rand it returns on any entropy() digits.
C14_IRandComparisons ==
  /\ last.op \in IComparisons =>
       /\ \A j \in i_rand_min(h)..i_rand_max(h) : last.ret = Holds(last.op, j, last.m, last.n)
       /\ Len(last.drawn) <= last.pre.l
       /\ h = RefinedBy(b, last.pre, last.drawn)
       /\ \A k \in 0..(Len(last.drawn) - 1) :
            Straddles(last.op, RefinedBy(b, last.pre, SubSeq(last.drawn, 1, k)),
                      last.m, last.n)
       /\ ~Straddles(last.op, last.pre, last.m, last.n) => last.drawn = <<>>
  /\ last = Idle =>
       \A op \in IComparisons :
       \A n \in 1..MaxFrac, m \in (-MaxA * MaxFrac)..(MaxA * MaxFrac) :
         ReturnsWithinEntropy(op, h, m, n)

\* greater_than a negative fraction decided by the second refinement
C14_Witness ==
  /\ last.op = "greater_than" /\ last.m < 0 /\ last.n = 2
  /\ Len(last.drawn) = 2 /\ last.pre.l >= 2
  /\ last.ret

\* less_than_equal false on a range still of several integers
C14_WitnessRange ==
  /\ last.op = "less_than_equal" /\ ~last.ret
  /\ Len(last.drawn) = 1 /\ h.d > 1

(***************************************************************************)
(* u_rand::truncatep and u_rand::less_than_half on one u-rand, for even    *)
(* and odd bases.                                                          *)
(***************************************************************************)
TruncBases == {2, 3, 4, 5}

InitTrunc ==
  /\ b \in TruncBases
  /\ ur = [w \in {"x"} |-> u_rand_init]
  /\ h = i_rand_construct
  /\ pc = "idle"
  /\ loc = <<>>
  /\ par = <<>>
  /\ last = Idle

\* x.digit(g, k) for the next position k
TDigit ==
  /\ last = Idle
  /\ Len(ur["x"].d) < MaxDigits
  /\ \E dg \in 0..(b - 1) :
       ur' = [ur EXCEPT !["x"] = u_rand_digit(@, Len(@.d), <<dg>>).u]
  /\ UNCHANGED <<b, h, pc, loc, par, last>>

\* x.truncatep(g, k)
UTruncatep ==
  /\ last = Idle
  /\ \E k \in 0..MaxDigits :
     \E t \in ValidTapes(b, LAMBDA tt : u_rand_truncatep(b, ur["x"], k, tt), <<>>,
                         k + MaxDraw) :
       LET r == u_rand_truncatep(b, ur["x"], k, t) IN
       /\ ur' = [ur EXCEPT !["x"] = r.u]
       /\ last' = [op |-> "truncatep", k |-> k, pre |-> ur["x"], drawn |-> t,
                   ret |-> r.ret]
  /\ UNCHANGED <<b, h, pc, loc, par>>

\* x.less_than_half(g)
ULessThanHalf ==
  /\ last = Idle
  /\ \E t \in ValidTapes(b, LAMBDA tt : u_rand_less_than_half(b, ur["x"], tt), <<>>,
                         MaxDraw) :
       LET r == u_rand_less_than_half(b, ur["x"], t) IN
       /\ ur' = [ur EXCEPT !["x"] = r.u]
       /\ last' = [op |-> "less_than_half", k |-> 0, pre |-> ur["x"], drawn |-> t,
                   ret |-> r.ret]
  /\ UNCHANGED <<b, h, pc, loc, par>>

NextTrunc ==
  \/ UInit("x")
  \/ UNegate("x")
  \/ USetInteger("x")
  \/ TDigit
  \/ UTruncatep
  \/ ULessThanHalf
  \/ Return

SpecTrunc == InitTrunc /\ [][NextTrunc]_vars

\* floor(p / 2) for p >= 0
HalfFloor(p) == p \div 2

\* the digit dg neither gives true nor gives false
Undecided(dg) == ~(dg <= HalfFloor(b - 2)) /\ ~(dg > HalfFloor(b - 1))

\* truncatep(g, k) went from d_k on to d_e and returned on d_e; the digits of
\* positions up to e are drawn when missing, and none beyond e
TruncatepEndsAt(e) ==
  LET x == ur["x"] IN
  /\ last.k <= e /\ e < Len(x.d)
  /\ \A i \in last.k..(e - 1) : Undecided(x.d[i + 1])
  /\ ~Undecided(x.d[e + 1])
  /\ last.ret = (x.d[e + 1] <= HalfFloor(b - 2))
  /\ (~last.ret) = (x.d[e + 1] > HalfFloor(b - 1))
  /\ x.s = last.pre.s /\ x.n = last.pre.n /\ IsPrefix(last.pre.d, x.d)
  /\ Len(x.d) = Max2(Len(last.pre.d), e + 1)
  /\ x.d = last.pre.d \o last.drawn

\* truncatep(g, k) and, on a u-rand of sign +1 and integer part 0,
\* less_than_half(g) as truncatep(g, 0)
TruncatepCall ==
  \/ last.op = "truncatep"
  \/ last.op = "less_than_half" /\ last.pre.s > 0 /\ last.pre.n = 0

\* C15 (the claim as stated): truncatep(g, k) returns true if
\* d_k <= floor((b-2)/2), false if d_k > floor((b-1)/2), and goes on to
\* d_{k+1} otherwise, which happens only when b is even and d_k = b/2.
C15_TieEvenBase ==
  TruncatepCall =>
    \E e \in last.k..(Len(ur["x"].d) - 1) :
      /\ TruncatepEndsAt(e)
      /\ \A i \in last.k..(e - 1) : b % 2 = 0 /\ 2 * ur["x"].d[i + 1] = b

\* C15: truncatep(g, k) returns true if d_k <= floor((b-2)/2), false if
\* d_k > floor((b-1)/2), and goes on to d_{k+1} otherwise, which happens only
\* when b is odd and d_k = (b-1)/2; with an even base it returns on d_k.
C15_Truncatep ==
  /\ TruncatepCall =>
       \E e \in last.k..(Len(ur["x"].d) - 1) :
         /\ TruncatepEndsAt(e)
         /\ \A i \in last.k..(e - 1) : b % 2 = 1 /\ 2 * ur["x"].d[i + 1] = b - 1
         /\ b % 2 = 0 => e = last.k
  /\ (last.op = "less_than_half" /\ last.pre.s < 0) =>
       last.ret /\ last.drawn = <<>> /\ ur["x"] = last.pre
  /\ (last.op = "less_than_half" /\ last.pre.s > 0 /\ last.pre.n > 0) =>
       ~last.ret /\ last.drawn = <<>> /\ ur["x"] = last.pre

\* base 5: d_k = 2 sent truncatep on to d_{k+1}, drawn in the call
C15_Witness ==
  /\ last.op = "truncatep" /\ b = 5
  /\ Len(ur["x"].d) = last.k + 2
  /\ ur["x"].d[last.k + 1] = 2
  /\ Len(last.drawn) >= 2

\* an even base: truncatep returned false on d_k = b/2
C15_WitnessEven ==
  /\ last.op = "truncatep" /\ b = 4 /\ ~last.ret
  /\ ur["x"].d[last.k + 1] = 2
  /\ last.drawn # <<>>

(***************************************************************************)
(* Algorithm C of unit_normal_dist, run on its own: C(g, m) for m = 2k + 2 *)
(* in par.  Every sequence of n digits has probability b^-n.               *)
(***************************************************************************)
MaxCDraw == 4      \* digits one run of Algorithm C may draw

CBases == {2, 3, 4, 10}
CValues == {2 * k + 2 : k \in 0..3}

InitC ==
  /\ b \in CBases
  /\ ur = <<>>
  /\ h = i_rand_construct
  /\ pc = "idle"
  /\ loc = <<>>
  /\ par \in [m : CValues]
  /\ last = Idle

\* C(g, m)
CRun ==
  /\ last = Idle
  /\ \E t \in ValidTapes(b, LAMBDA tt : normal_C(b, par.m, tt), <<>>, MaxCDraw) :
       last' = [op |-> "C", drawn |-> t, ret |-> normal_C(b, par.m, t).ret]
  /\ UNCHANGED <<b, ur, h, pc, loc, par>>

NextC ==
  \/ CRun
  \/ Return

SpecC == InitC /\ [][NextC]_vars

\* the digit sequences of at most MaxCDraw digits on which C(g, m) returns
CTapes ==
  [base \in CBases |-> [m \in CValues |->
     ValidTapes(base, LAMBDA tt : normal_C(base, m, tt), <<>>, MaxCDraw)]]

\* the number of sequences of MaxCDraw digits that begin with a sequence on
\* which C(g, m) returns r
CCount(base, m, r) ==
  Sum(LAMBDA n : Cardinality({t \in CTapes[base][m] :
                                Len(t) = n /\ normal_C(base, m, t).ret = r})
                 * Pow(base, MaxCDraw - n),
      0, MaxCDraw)

\* the number of sequences of MaxCDraw digits after which C(g, m) has not
\* returned
CUndecided(base, m) ==
  Pow(base, MaxCDraw) - CCount(base, m, -1) - CCount(base, m, 0) - CCount(base, m, 1)

\* C(g, m) returns r with probability p / m: the sequences that give r are p
\* out of m of all sequences, up to those still undecided
CProbability(base, m, r, p) ==
  /\ CCount(base, m, r) * m <= p * Pow(base, MaxCDraw)
  /\ p * Pow(base, MaxCDraw) <= (CCount(base, m, r) + CUndecided(base, m)) * m

\* the run of C that has just returned drew the digits of a number U of
\* [lo/den, (lo+1)/den): it returns -1 for U < 1/m, 0 for 1/m <= U < 2/m and
\* +1 for U >= 2/m, on the first digit that tells
CRegion ==
  LET lo == DigitsValue(last.drawn, b)
      den == Pow(b, Len(last.drawn))
      plo == DigitsValue(SubSeq(last.drawn, 1, Len(last.drawn) - 1), b)
      pden == Pow(b, Len(last.drawn) - 1)
      Within(l, d) == \/ (l + 1) * par.m <= d
                      \/ l * par.m >= d /\ (l + 1) * par.m <= 2 * d
                      \/ l * par.m >= 2 * d
  IN
  /\ last.drawn # <<>>
  /\ last.ret = -1 => (lo + 1) * par.m <= den
  /\ last.ret = 0 => lo * par.m >= den /\ (lo + 1) * par.m <= 2 * den
  /\ last.ret = 1 => lo * par.m >= 2 * den
  /\ last.ret \in {-1, 0, 1}
  /\ ~Within(plo, pden)

\* C16 (the claim as stated): C(g, m) returns -1 with probability 1/m, +1
\* with probability 1/m and 0 with probability 1 - 2/m.
C16_AlgorithmCAsStated ==
  last.op = "C" =>
    /\ CProbability(b, par.m, -1, 1)
    /\ CProbability(b, par.m, 1, 1)
    /\ CProbability(b, par.m, 0, par.m - 2)

\* C16: C(g, m) returns -1 with probability 1/m, 0 with probability 1/m and
\* +1 with probability 1 - 2/m: it returns -1, 0, +1 as the number U whose
\* digits it draws is in [0, 1/m), [1/m, 2/m), [2/m, 1), as soon as the digits
\* tell, and after any number of digits at most two sequences are undecided.
C16_AlgorithmC ==
  last.op = "C" =>
    /\ CRegion
    /\ CProbability(b, par.m, -1, 1)
    /\ CProbability(b, par.m, 0, 1)
    /\ CProbability(b, par.m, 1, par.m - 2)
    /\ CUndecided(b, par.m) <= 2
    /\ \A r \in {-1, 0, 1} :
         CCount(b, par.m, r) > 0 \/ (r = 1 /\ par.m = 2) \/ Pow(b, MaxCDraw) < par.m

\* m = 6, base 2: +1 returned on the third digit
C16_Witness ==
  /\ last.op = "C" /\ par.m = 6 /\ b = 2
  /\ last.ret = 1 /\ Len(last.drawn) = 3
  /\ CCount(b, par.m, 1) > CCount(b, par.m, 0)

\* 0 returned on the third digit
C16_WitnessZero ==
  /\ last.op = "C" /\ last.ret = 0
  /\ Len(last.drawn) = 3 /\ par.m = 4

(***************************************************************************)
(* Algorithm H of unit_normal_dist and discrete_normal_dist, one test at a *)
(* time: pc is the test to come ("half", "z", "y"), loc holds _y and _z as *)
(* they were at the call and the digits drawn since.                       *)
(***************************************************************************)
MaxHDraw == 5      \* digits one run of H may draw

\* mutant: the three tests with their outcomes the other way round
normal_H_next_inverted(at, ret) ==
  IF at = "half"
  THEN (IF ~ret THEN [pc |-> "z", returned |-> FALSE, result |-> FALSE]
        ELSE [pc |-> "idle", returned |-> TRUE, result |-> TRUE])
  ELSE IF at = "z"
  THEN (IF ~ret THEN [pc |-> "idle", returned |-> TRUE, result |-> TRUE]
        ELSE [pc |-> "y", returned |-> FALSE, result |-> FALSE])
  ELSE (IF ~ret THEN [pc |-> "idle", returned |-> TRUE, result |-> FALSE]
        ELSE [pc |-> "z", returned |-> FALSE, result |-> FALSE])

\* what H does after the test at has given ret:
\*   if (!_y.init().less_than_half(g)) return true;
\*   for (;;) {
\*     if (!_z.init().less_than(g, _y)) return false;
\*     if (!_y.init().less_than(g, _z)) return true;
\*   }
normal_H_next(at, ret) ==
  IF at = "half"
  THEN (IF ~ret THEN [pc |-> "idle", returned |-> TRUE, result |-> TRUE]
        ELSE [pc |-> "z", returned |-> FALSE, result |-> FALSE])
  ELSE IF at = "z"
  THEN (IF ~ret THEN [pc |-> "idle", returned |-> TRUE, result |-> FALSE]
        ELSE [pc |-> "y", returned |-> FALSE, result |-> FALSE])
  ELSE (IF ~ret THEN [pc |-> "idle", returned |-> TRUE, result |-> TRUE]
        ELSE [pc |-> "z", returned |-> FALSE, result |-> FALSE])

InitH ==
  /\ b \in Bases
  /\ ur = [w \in DNames |-> u_rand_init]
  /\ h = i_rand_construct
  /\ pc = "idle"
  /\ loc = [pre |-> ur, drawn |-> <<>>]
  /\ par = <<>>
  /\ last = Idle

\* H(g) is called
HCall ==
  /\ pc = "idle" /\ last = Idle
  /\ pc' = "half"
  /\ loc' = [pre |-> ur, drawn |-> <<>>]
  /\ UNCHANGED <<b, ur, h, par, last>>

HStep(at, u, v, r) ==
  LET nx == normal_H_next(at, r.ret) IN
  /\ Len(loc.drawn) + Len(r.drawn) <= MaxHDraw
  /\ ur' = [y |-> u, z |-> v]
  /\ pc' = nx.pc
  /\ loc' = [loc EXCEPT !.drawn = loc.drawn \o r.drawn]
  /\ last' = [op |-> at, ret |-> r.ret, returned |-> nx.returned, result |-> nx.result]
  /\ UNCHANGED <<b, h, par>>

\* _y.init().less_than_half(g)
HHalf ==
  /\ pc = "half"
  /\ \E t \in HalfTapes[b] :
       LET r == u_rand_less_than_half(b, u_rand_init, t) IN
       HStep("half", r.u, ur["z"], [ret |-> r.ret, drawn |-> t])

\* _z.init().less_than(g, _y)
HTestZ ==
  /\ pc = "z"
  /\ \E t \in ValidTapes(b, LAMBDA tt : u_rand_less_than(u_rand_init, ur["y"], FALSE, tt),
                         <<>>, MaxDraw) :
       LET r == u_rand_less_than(u_rand_init, ur["y"], FALSE, t) IN
       HStep("z", r.v, r.u, [ret |-> r.ret, drawn |-> t])

\* _y.init().less_than(g, _z)
HTestY ==
  /\ pc = "y"
  /\ \E t \in ValidTapes(b, LAMBDA tt : u_rand_less_than(u_rand_init, ur["z"], FALSE, tt),
                         <<>>, MaxDraw) :
       LET r == u_rand_less_than(u_rand_init, ur["z"], FALSE, t) IN
       HStep("y", r.u, r.v, [ret |-> r.ret, drawn |-> t])

\* the caller takes the result of H
HReturn ==
  /\ pc = "idle" /\ last # Idle
  /\ last' = Idle
  /\ UNCHANGED <<b, ur, h, pc, loc, par>>

NextH ==
  \/ HCall
  \/ HHalf
  \/ HTestZ
  \/ HTestY
  \/ HReturn

SpecH == InitH /\ [][NextH]_vars

\* u < 1/2 and u < v as decided on the digits the u-rands hold
BelowHalf(u) == 2 * UHi(u) <= UDen(u)
NotBelowHalf(u) == 2 * ULo(u) >= UDen(u)
Below(u, v) == UHi(u) * UDen(v) <= ULo(v) * UDen(u)

\* the test just made gave the truth of y < 1/2, z < y or y < z
HTestIsTrue ==
  /\ last.op = "half" => IF last.ret THEN BelowHalf(ur["y"]) ELSE NotBelowHalf(ur["y"])
  /\ last.op = "z" => IF last.ret THEN Below(ur["z"], ur["y"]) ELSE Below(ur["y"], ur["z"])
  /\ last.op = "y" => IF last.ret THEN Below(ur["y"], ur["z"]) ELSE Below(ur["z"], ur["y"])

\* the whole of H on the digits drawn since the call gives what the steps gave
HAsAWhole ==
  (last # Idle /\ last.returned) =>
    LET r == normal_H(b, loc.pre["y"], loc.pre["z"], loc.drawn) IN
    /\ r.ok /\ r.t = <<>> /\ r.ret = last.result
    /\ r.y = ur["y"] /\ r.z = ur["z"]
    /\ discrete_H(b, loc.pre["y"], loc.pre["z"], loc.drawn) = r

\* C17 (the claim as stated): H tests y < 1/2 on a fresh y and, when that
\* test fails, enters the loop: draw z, return true if z >= y; else draw y,
\* return false if y >= z.
C17_HAsStated ==
  /\ HTestIsTrue
  /\ (last.op = "half" /\ ~last.ret) => pc = "z"
  /\ (last.op = "z" /\ ~last.ret) => pc = "idle" /\ last.returned /\ last.result
  /\ (last.op = "z" /\ last.ret) => pc = "y"
  /\ (last.op = "y" /\ ~last.ret) => pc = "idle" /\ last.returned /\ ~last.result
  /\ (last.op = "y" /\ last.ret) => pc = "z"

\* C17: H tests y < 1/2 on a fresh y and returns true when that test fails;
\* when it succeeds H enters the loop: draw z, return false if z >= y; else
\* draw y, return true if y >= z.
C17_AlgorithmH ==
  /\ HTestIsTrue
  /\ HAsAWhole
  /\ (last.op = "half" /\ ~last.ret) => pc = "idle" /\ last.returned /\ last.result
  /\ (last.op = "half" /\ last.ret) => pc = "z" /\ ~last.returned
  /\ (last.op = "z" /\ ~last.ret) => pc = "idle" /\ last.returned /\ ~last.result
  /\ (last.op = "z" /\ last.ret) => pc = "y" /\ ~last.returned
  /\ (last.op = "y" /\ ~last.ret) => pc = "idle" /\ last.returned /\ last.result
  /\ (last.op = "y" /\ last.ret) => pc = "z" /\ ~last.returned

\* true returned in the loop: y < 1/2, z < y, then the new y >= z
C17_Witness ==
  /\ last # Idle /\ last.op = "y" /\ last.returned /\ last.result
  /\ Len(loc.drawn) >= 3
  /\ loc.pre["y"] # u_rand_init

\* false returned in the second round of the loop
C17_WitnessSecond ==
  /\ last # Idle /\ last.op = "z" /\ last.returned /\ ~last.result
  /\ Len(loc.drawn) >= 5

(***************************************************************************)
(* u_rand::value<RealType>(g, rnd, flag).  RealType is given by F: its     *)
(* radix, digits, min_exponent and whether it has denormalized numbers.    *)
(* The result z is the sum of the bits of *this in positions trail+1..lead *)
(* and of the rounding unit, which RealType holds exactly: it is kept as   *)
(* the fraction num / radix^exp.                                           *)
(***************************************************************************)
RoundStyles == {"round_to_nearest", "round_toward_zero", "round_toward_infinity",
                "round_toward_neg_infinity", "round_indeterminate"}

\* xbits: how many RealType digits fit into a u_rand digit
value_xbits(base, F) == IF F.radix = 2 THEN bits(base) ELSE 1

\* flag as set from rnd: the rounding direction for the magnitude
value_flag(rnd, s) ==
  IF rnd = "round_to_nearest" THEN 0
  ELSE IF rnd = "round_toward_zero" THEN -1
  ELSE IF rnd = "round_toward_infinity" THEN s
  ELSE IF rnd = "round_toward_neg_infinity" THEN -s
  ELSE 1

\* lead = 0; while (n) {++lead; n /= radix;}
RECURSIVE value_radix_digits(_, _)
value_radix_digits(n, radix) ==
  IF n = 0 THEN 0 ELSE 1 + value_radix_digits(n \div radix, radix)

\* while ( digit(g, size_t(i)) == 0 && i < (-min_exp)/xbits ) ++i;
RECURSIVE value_lead_loop(_, _, _, _, _)
value_lead_loop(base, F, u, i, t) ==
  Let(u_rand_digit(u, i, t), LAMBDA r :
  IF ~r.ok THEN [u |-> r.u, t |-> <<>>, ok |-> FALSE, i |-> i]
  ELSE IF r.val = 0 /\ i < CDiv(-F.min_exp, value_xbits(base, F))
    THEN value_lead_loop(base, F, r.u, i + 1, r.t)
  ELSE [u |-> r.u, t |-> r.t, ok |-> TRUE, i |-> i])

\* the position of the leading bit (0.5 = position 0)
value_lead(base, F, u, t) ==
  IF u.n # 0
  THEN [u |-> u, t |-> t, ok |-> TRUE,
        lead |-> IF F.radix = 2 THEN highest_bit_idx(u.n)
                 ELSE value_radix_digits(u.n, F.radix)]
  ELSE Let(value_lead_loop(base, F, u, 0, t), LAMBDA r :
       IF ~r.ok THEN [u |-> r.u, t |-> <<>>, ok |-> FALSE, lead |-> 0]
       ELSE LET di == r.u.d[r.i + 1]
                l0 == (IF F.radix = 2 THEN highest_bit_idx(di)
                       ELSE IF di # 0 THEN 1 ELSE 0)
                      - (r.i + 1) * value_xbits(base, F)
            IN [u |-> r.u, t |-> r.t, ok |-> TRUE,
                lead |-> IF l0 >= F.min_exp THEN l0
                         ELSE IF F.has_denorm THEN F.min_exp ELSE F.min_exp - 1])

\* the position of the rounding bit
value_trail(F, lead) == lead - (IF lead >= F.min_exp THEN F.digits ELSE 0)

\* mutant: the rounding bit is read from a digit not yet drawn
value_round_bit_fresh(base, F, u, trail, t) ==
  Let(u_rand_digit(u, Len(u.d), t), LAMBDA r :
    [u |-> r.u, t |-> r.t, ok |-> r.ok, val |-> r.val \div (base \div 2)])

\* mutant: the bit one position below the rounding bit is read
value_round_bit_below(base, F, u, trail, t) ==
  LET xbits == value_xbits(base, F)
      tr == trail - 1
  IN
  IF F.radix = 2
  THEN IF tr > 0
       THEN [u |-> u, t |-> t, ok |-> TRUE, val |-> (u.n \div Pow(2, tr - 1)) % 2]
       ELSE Let(u_rand_digit(u, CDiv(-tr, xbits), t), LAMBDA r :
              [u |-> r.u, t |-> r.t, ok |-> r.ok,
               val |-> (r.val \div Pow(2, xbits - 1 - CMod(-tr, xbits))) % 2])
  ELSE IF tr > 0
       THEN [u |-> u, t |-> t, ok |-> TRUE,
             val |-> ((u.n \div Pow(F.radix, tr - 1)) % F.radix) \div (F.radix \div 2)]
       ELSE Let(u_rand_digit(u, -tr, t), LAMBDA r :
              [u |-> r.u, t |-> r.t, ok |-> r.ok, val |-> r.val \div (F.radix \div 2)])

\* the rounding bit, for flag == 0
value_round_bit(base, F, u, trail, t) ==
  LET xbits == value_xbits(base, F) IN
  IF F.radix = 2
  THEN IF trail > 0
       THEN [u |-> u, t |-> t, ok |-> TRUE, val |-> (u.n \div Pow(2, trail - 1)) % 2]
       ELSE Let(u_rand_digit(u, CDiv(-trail, xbits), t), LAMBDA r :
              [u |-> r.u, t |-> r.t, ok |-> r.ok,
               val |-> (r.val \div Pow(2, xbits - 1 - CMod(-trail, xbits))) % 2])
  ELSE IF trail > 0
       THEN [u |-> u, t |-> t, ok |-> TRUE,
             val |-> ((u.n \div Pow(F.radix, trail - 1)) % F.radix) \div (F.radix \div 2)]
       ELSE Let(u_rand_digit(u, -trail, t), LAMBDA r :
              [u |-> r.u, t |-> r.t, ok |-> r.ok, val |-> r.val \div (F.radix \div 2)])

\* mutant: the rounding unit is left out of the sum
value_z_truncated(base, F, u, lead, trail, z, t) ==
  LET xbits == value_xbits(base, F) IN
  IF trail >= 0
  THEN \* z * radix^trail + the digits of _n from position trail + 1 up
       [u |-> u, t |-> t, ok |-> TRUE,
        num |-> (u.n \div Pow(F.radix, trail)) * Pow(F.radix, trail), exp |-> 0]
  ELSE IF lead >= F.min_exp
  THEN LET k == CDiv(-trail - 1, xbits)
           sh == IF F.radix = 2 THEN (k + 1) * xbits + trail ELSE 0
       IN
       Let(u_rand_digit(u, k, t), LAMBDA r :
       IF ~r.ok THEN [u |-> r.u, t |-> <<>>, ok |-> FALSE, num |-> 0, exp |-> 0]
       ELSE \* digit k without its sh low bits, plus z, then the digits above
            \* it and _n, each step dividing by the base
            [u |-> r.u, t |-> r.t, ok |-> TRUE,
             num |-> (r.val \div Pow(2, sh)) * Pow(2, sh)
                     + base * (DigitsValue(SubSeq(r.u.d, 1, k), base)
                               + r.u.n * Pow(base, k)),
             exp |-> (k + 1) * xbits])
  ELSE \* z *= std::numeric_limits<RealType>::min()
       [u |-> u, t |-> t, ok |-> TRUE, num |-> 0, exp |-> 1 - F.min_exp]

\* z from RealType z(flag > 0 ? 1 : 0) on, as num / radix^exp
value_z(base, F, u, lead, trail, z, t) ==
  LET xbits == value_xbits(base, F) IN
  IF trail >= 0
  THEN \* z * radix^trail + the digits of _n from position trail + 1 up
       [u |-> u, t |-> t, ok |-> TRUE,
        num |-> (z + u.n \div Pow(F.radix, trail)) * Pow(F.radix, trail), exp |-> 0]
  ELSE IF lead >= F.min_exp
  THEN LET k == CDiv(-trail - 1, xbits)
           sh == IF F.radix = 2 THEN (k + 1) * xbits + trail ELSE 0
       IN
       Let(u_rand_digit(u, k, t), LAMBDA r :
       IF ~r.ok THEN [u |-> r.u, t |-> <<>>, ok |-> FALSE, num |-> 0, exp |-> 0]
       ELSE \* digit k without its sh low bits, plus z, then the digits above
            \* it and _n, each step dividing by the base
            [u |-> r.u, t |-> r.t, ok |-> TRUE,
             num |-> (z + r.val \div Pow(2, sh)) * Pow(2, sh)
                     + base * (DigitsValue(SubSeq(r.u.d, 1, k), base)
                               + r.u.n * Pow(base, k)),
             exp |-> (k + 1) * xbits])
  ELSE \* z *= std::numeric_limits<RealType>::min()
       [u |-> u, t |-> t, ok |-> TRUE, num |-> z, exp |-> 1 - F.min_exp]

\* u_rand::value<RealType>(g, rnd, flag): the value is num / radix^exp
u_rand_value(base, F, u, rnd, t) ==
  Let(value_lead(base, F, u, t), LAMBDA rl :
  IF ~rl.ok THEN [u |-> rl.u, t |-> <<>>, ok |-> FALSE, num |-> 0, exp |-> 0, flag |-> 0]
  ELSE
    LET trail == value_trail(F, rl.lead)
        flag0 == value_flag(rnd, u.s)
    IN
    Let(IF flag0 = 0 THEN value_round_bit(base, F, rl.u, trail, rl.t)
        ELSE [u |-> rl.u, t |-> rl.t, ok |-> TRUE, val |-> 0],
        LAMBDA rb :
    IF ~rb.ok THEN [u |-> rb.u, t |-> <<>>, ok |-> FALSE, num |-> 0, exp |-> 0, flag |-> 0]
    ELSE
      LET flag == IF flag0 # 0 THEN flag0 ELSE IF rb.val = 0 THEN -1 ELSE 1 IN
      Let(value_z(base, F, rb.u, rl.lead, trail, IF flag > 0 THEN 1 ELSE 0, rb.t),
          LAMBDA rz :
        [u |-> rz.u, t |-> rz.t, ok |-> rz.ok,
         num |-> u.s * rz.num, exp |-> rz.exp, flag |-> flag * u.s])))

(***************************************************************************)
(* The value machine: one u-rand x brought to some state by set_integer,   *)
(* negate and digit, then value<RealType>(g, rnd, flag), once or twice in  *)
(* succession; par is RealType.                                            *)
(***************************************************************************)
MaxVDraw == 5      \* digits one call of value may draw

VBases == {2, 4, 6}
VInts == {1, 2, 5}

\* the types value accepts for the base: radix 2 with a base that is a power
\* of two, or radix = base with an even base
RealTypes(base) ==
  {F \in [radix : {2}, digits : {2, 3}, min_exp : {-2}, has_denorm : BOOLEAN] :
     power_of_two(base)}
  \cup {F \in [radix : {base}, digits : {1}, min_exp : {-1}, has_denorm : BOOLEAN] :
          base % 2 = 0}

InitValue ==
  /\ b \in VBases
  /\ ur = [w \in {"x"} |-> u_rand_init]
  /\ h = i_rand_construct
  /\ pc = "idle"
  /\ loc = <<>>
  /\ par \in RealTypes(b)
  /\ last = Idle

\* x.set_integer(n)
VSetInteger ==
  /\ last = Idle
  /\ ur["x"].n = 0
  /\ \E n \in VInts : ur' = [ur EXCEPT !["x"] = u_rand_set_integer(@, n)]
  /\ UNCHANGED <<b, h, pc, loc, par, last>>

\* x.negate()
VNegate ==
  /\ last = Idle
  /\ ur["x"].s = 1
  /\ ur' = [ur EXCEPT !["x"] = u_rand_negate(@)]
  /\ UNCHANGED <<b, h, pc, loc, par, last>>

\* x.digit(g, k) for the next position k
VDigit ==
  /\ last = Idle
  /\ Len(ur["x"].d) < MaxDigits
  /\ \E dg \in 0..(b - 1) :
       ur' = [ur EXCEPT !["x"] = u_rand_digit(@, Len(@.d), <<dg>>).u]
  /\ UNCHANGED <<b, h, pc, loc, par, last>>

\* x.value<RealType>(g, rnd, flag)
VValue ==
  /\ last = Idle
  /\ \E rnd \in RoundStyles :
     \E t \in ValidTapes(b, LAMBDA tt : u_rand_value(b, par, ur["x"], rnd, tt), <<>>,
                         MaxVDraw) :
       LET r == u_rand_value(b, par, ur["x"], rnd, t) IN
       /\ ur' = [ur EXCEPT !["x"] = r.u]
       /\ last' = [op |-> "value", again |-> FALSE, rnd |-> rnd, pre |-> ur["x"],
                   drawn |-> t, num |-> r.num, exp |-> r.exp, flag |-> r.flag,
                   first |-> <<>>]
  /\ UNCHANGED <<b, h, pc, loc, par>>

\* x.value<RealType>(g, rnd, flag) once more, with the same rnd
VValueAgain ==
  /\ last # Idle /\ ~last.again
  /\ \E t \in ValidTapes(b, LAMBDA tt : u_rand_value(b, par, ur["x"], last.rnd, tt), <<>>,
                         MaxDraw) :
       LET r == u_rand_value(b, par, ur["x"], last.rnd, t) IN
       /\ ur' = [ur EXCEPT !["x"] = r.u]
       /\ last' = [op |-> "value", again |-> TRUE, rnd |-> last.rnd, pre |-> ur["x"],
                   drawn |-> t, num |-> r.num, exp |-> r.exp, flag |-> r.flag,
                   first |-> [num |-> last.num, exp |-> last.exp, flag |-> last.flag]]
  /\ UNCHANGED <<b, h, pc, loc, par>>

NextValue ==
  \/ VSetInteger
  \/ VNegate
  \/ VDigit
  \/ VValue
  \/ VValueAgain
  \/ Return

SpecValue == InitValue /\ [][NextValue]_vars

C18_WitnessInteger ==
  /\ last.op = "value" /\ ur["x"].n = 5 /\ par.digits = 2 /\ par.radix = 2
  /\ last.rnd = "round_toward_infinity" /\ last.num = 6 /\ last.exp = 0

\* radix = base = 6: underflow without denormalized numbers
C18_WitnessUnderflow ==
  /\ last.op = "value" /\ par.radix = 6 /\ ~par.has_denorm
  /\ last.exp = 1 - par.min_exp /\ last.num = 1

\* C19: a second call of value<R>(g, rnd, flag) made straight after a first
\* one with the same rounding mode returns the same value and the same flag,
\* draws no digit and leaves the u-rand as it was.
C19_ValueTwice ==
  (last.op = "value" /\ last.again) =>
    /\ last.drawn = <<>>
    /\ last.num = last.first.num /\ last.exp = last.first.exp
    /\ last.flag = last.first.flag
    /\ ur["x"] = last.pre

\* the second call after a first call that drew digits for the rounding
C19_Witness ==
  /\ last.op = "value" /\ last.again
  /\ last.rnd = "round_to_nearest" /\ last.flag > 0
  /\ Len(ur["x"].d) >= 3 /\ ur["x"].s = -1
  /\ last.num # 0

(***************************************************************************)
(* param_type written to a stream and read back.  The text is a sequence   *)
(* of characters; a stream has its format flags and, for output, a width   *)
(* that the next integer written uses up (the fill character is the space  *)
(* a stream has unless it is changed).                                     *)
(***************************************************************************)
DigitChars == <<"0", "1", "2", "3", "4", "5", "6", "7", "8", "9", "a", "b", "c", "d",
                "e", "f">>

\* the value of the character c as a digit of the radix, or -1
CharValue(c, radix) ==
  IF \E i \in 1..radix : DigitChars[i] = c
  THEN (CHOOSE i \in 1..radix : DigitChars[i] = c) - 1
  ELSE -1

\* num_put for an unsigned value: its digits in the radix, no leading zero
RECURSIVE NatText(_, _)
NatText(n, radix) ==
  IF n < radix THEN <<DigitChars[n + 1]>>
  ELSE Append(NatText(n \div radix, radix), DigitChars[(n % radix) + 1])

RECURSIVE Spaces(_)
Spaces(n) == IF n <= 0 THEN <<>> ELSE <<" ">> \o Spaces(n - 1)

\* os << n for an int n under the flags and the width of the stream
os_insert_int(flags, width, n) ==
  LET text == IF "hex" \in flags
              THEN NatText(IF n < 0 THEN Pow(2, IntBits) + n ELSE n, 16)
              ELSE (IF n < 0 THEN <<"-">>
                    ELSE IF "showpos" \in flags THEN <<"+">> ELSE <<>>)
                   \o NatText(Abs(n), 10)
  IN IF "left" \in flags THEN text \o Spaces(width - Len(text))
     ELSE Spaces(width - Len(text)) \o text

\* mutant: the integers are written under the flags the stream has
param_insert_keepflags(os, x) ==
  os_insert_int(os.flags, os.width, x.mu_num) \o <<" ">>
    \o os_insert_int(os.flags, 0, x.mu_den) \o <<" ">>
    \o os_insert_int(os.flags, 0, x.sigma_num) \o <<" ">>
    \o os_insert_int(os.flags, 0, x.sigma_den)

\* operator<<(std::ostream&, const param_type&): os.flags(std::ios::dec), the
\* four integers with a space between them, then the flags as they were
param_insert(os, x) ==
  os_insert_int({"dec"}, os.width, x.mu_num) \o <<" ">>
    \o os_insert_int({"dec"}, 0, x.mu_den) \o <<" ">>
    \o os_insert_int({"dec"}, 0, x.sigma_num) \o <<" ">>
    \o os_insert_int({"dec"}, 0, x.sigma_den)

RECURSIVE SkipSpaces(_)
SkipSpaces(text) ==
  IF text # <<>> /\ Head(text) = " " THEN SkipSpaces(Tail(text)) ELSE text

\* num_get: the digits at the head of text, as [val, n, rest]; n counts them
RECURSIVE ReadDigits(_, _, _, _)
ReadDigits(text, radix, val, n) ==
  IF text # <<>> /\ CharValue(Head(text), radix) >= 0 /\ val <= maxint + 1
  THEN ReadDigits(Tail(text), radix, val * radix + CharValue(Head(text), radix), n + 1)
  ELSE IF text # <<>> /\ CharValue(Head(text), radix) >= 0
  THEN ReadDigits(Tail(text), radix, val, n + 1)
  ELSE [val |-> val, n |-> n, rest |-> text]

\* is >> n for an int n under the flags of the stream: white space is skipped
\* if skipws is set, then a sign and digits; no digit, or a value that does
\* not fit an int, fails
is_extract_int(flags, text) ==
  LET t1 == IF "skipws" \in flags THEN SkipSpaces(text) ELSE text
      neg == t1 # <<>> /\ Head(t1) = "-"
      t2 == IF t1 # <<>> /\ Head(t1) \in {"-", "+"} THEN Tail(t1) ELSE t1
      r == ReadDigits(t2, IF "hex" \in flags THEN 16 ELSE 10, 0, 0)
      v == IF neg THEN -r.val ELSE r.val
  IN [int |-> r.n > 0 /\ minint <= v /\ v <= maxint, val |-> v, rest |-> r.rest]

\* is >> mu_num >> mu_den >> sigma_num >> sigma_den as the tokens operator>>
\* is modelled on: after a failure nothing more is read
RECURSIVE param_text_tokens(_, _, _)
param_text_tokens(flags, text, n) ==
  IF n = 0 THEN <<>>
  ELSE LET r == is_extract_int(flags, text) IN
       IF r.int THEN <<[int |-> TRUE, val |-> r.val]>>
                       \o param_text_tokens(flags, r.rest, n - 1)
       ELSE <<[int |-> FALSE, val |-> 0]>>

\* mutant: the integers are read under the flags the stream has
param_extract_text_keepflags(x, is, text) ==
  param_extract(x, param_text_tokens(is.flags, text, 4))

\* operator>>(std::istream&, param_type&) on a text:
\* is.flags(std::ios::dec | std::ios::skipws)
param_extract_text(x, is, text) ==
  param_extract(x, param_text_tokens({"dec", "skipws"}, text, 4))

\* the states of the streams: format flags, and a width for output
OStreams == [flags : {{"dec", "skipws"}, {"hex", "skipws"}, {"dec", "showpos"},
                      {"dec", "left"}},
             width : {0, 6}]
IStreams == [flags : {{"dec", "skipws"}, {"hex", "skipws"}, {"dec"}}]

NoText == [text |-> <<>>, from |-> NoParam]

InitParamIO ==
  /\ b \in Bases
  /\ ur = [w \in UNames |-> u_rand_init]
  /\ h = i_rand_construct
  /\ pc = "idle"
  /\ loc = NoText
  /\ \E x0 \in {param_default,
                [mu_num |-> -7, mu_den |-> 3, sigma_num |-> 10, sigma_den |-> 3]} :
       par = [x |-> x0, p |-> NoParam, dist |-> NoDist]
  /\ last = Idle

\* the integers given to the constructor of the param_type to write
IOInts == {1 - maxint, -7, 0, 3, 10, maxint}

\* param_type p(mu_num, mu_den, sigma_num, sigma_den);
PMakeParam ==
  /\ last = Idle
  /\ ~par.p.made
  /\ \E a1 \in IOInts, a2 \in IOInts, a3 \in IOInts, a4 \in IOInts :
       LET r == param_type(<<a1, a2, a3, a4>>) IN
       /\ r.ok
       /\ par' = [par EXCEPT !.p = [made |-> TRUE, param |-> r.x]]
  /\ UNCHANGED <<b, ur, h, pc, loc, last>>

\* os << p; loc is what the stream then holds and the parameters written
PInsert ==
  /\ last = Idle
  /\ par.p.made /\ loc = NoText
  /\ \E os \in OStreams :
       /\ loc' = [text |-> param_insert(os, par.p.param), from |-> par.p.param]
       /\ last' = [op |-> "insert", os |-> os]
  /\ UNCHANGED <<b, ur, h, pc, par>>

\* is >> x; on the text written
PExtractText ==
  /\ last = Idle
  /\ loc.text # <<>>
  /\ \E is \in IStreams :
       LET r == param_extract_text(par.x, is, loc.text) IN
       /\ par' = [par EXCEPT !.x = r.x]
       /\ last' = [op |-> "extract_text", is |-> is, pre |-> par, text |-> loc.text,
                   from |-> loc.from, failbit |-> r.failbit, thrown |-> r.thrown]
  /\ loc' = [loc EXCEPT !.text = <<>>]
  /\ UNCHANGED <<b, ur, h, pc>>

NextParamIO ==
  \/ PMakeParam
  \/ PInsert
  \/ PExtractText
  \/ Return

SpecParamIO == InitParamIO /\ [][NextParamIO]_vars

C20_WitnessMax ==
  /\ last.op = "extract_text"
  /\ par.x.sigma_num = maxint /\ par.x.mu_num = 1 - maxint
  /\ last.pre.x # par.x

(***************************************************************************)
(* Equality of param_type.  Two parameter objects are built, each by any   *)
(* of the constructors, and compared; the integers given to the            *)
(* constructors are kept beside the objects.                               *)
(***************************************************************************)
\* mutant: the sigmas are not compared
param_equal_mu_only(p1, p2) ==
  p1.mu_num = p2.mu_num /\ p1.mu_den = p2.mu_den

\* operator==(const param_type&, const param_type&)
param_equal(p1, p2) ==
  /\ p1.mu_num = p2.mu_num
  /\ p1.mu_den = p2.mu_den
  /\ p1.sigma_num = p2.sigma_num
  /\ p1.sigma_den = p2.sigma_den

EqMuNums == {minint, -4, -2, 0, 2}
EqMuDens == {0, 2, 4}
EqSigmaNums == {0, 2, 4}
EqSigmaDens == {1, 2}

\* argument lists of the constructors with two, three and four integers
EqArgLists ==
  {<<m, sg>> : m \in EqMuNums, sg \in EqSigmaNums}
    \cup {<<m, sg, d>> : m \in EqMuNums, sg \in EqSigmaNums, d \in EqMuDens}
    \cup {<<m, md, sg, sd>> : m \in EqMuNums, md \in EqMuDens,
                               sg \in EqSigmaNums, sd \in EqSigmaDens}

EqSlots == {"p1", "p2"}

\* both objects default constructed
InitParamEq ==
  /\ b = 2
  /\ ur = [w \in UNames |-> u_rand_init]
  /\ h = i_rand_construct
  /\ pc = "idle"
  /\ loc = <<>>
  /\ par = [w \in EqSlots |-> [x |-> param_default, args |-> <<>>]]
  /\ last = Idle

\* p = param_type(...): the object is replaced if the constructor returns
QConstruct(w) ==
  /\ last = Idle
  /\ \E args \in EqArgLists :
       LET r == param_type(args) IN
       /\ r.ok
       /\ par' = [par EXCEPT ![w] = [x |-> r.x, args |-> args]]
  /\ UNCHANGED <<b, ur, h, pc, loc, last>>

\* p = param_type()
QDefault(w) ==
  /\ last = Idle
  /\ par' = [par EXCEPT ![w] = [x |-> param_default, args |-> <<>>]]
  /\ UNCHANGED <<b, ur, h, pc, loc, last>>

\* p1 == p2
QEqual ==
  /\ last = Idle
  /\ last' = [op |-> "equal", ret |-> param_equal(par.p1.x, par.p2.x)]
  /\ UNCHANGED <<b, ur, h, pc, loc, par>>

NextParamEq ==
  \/ \E w \in EqSlots : QConstruct(w)
  \/ \E w \in EqSlots : QDefault(w)
  \/ QEqual
  \/ Return

SpecParamEq == InitParamEq /\ [][NextParamEq]_vars

\* the four integers an argument list denotes: mu = [1]/[2], sigma = [3]/[4]
Denoted(args) == IF args = <<>> THEN <<0, 1, 1, 1>> ELSE ParamArgs(args)

SameRationals(a1, a2) ==
  /\ a1[1] * a2[2] = a2[1] * a1[2]
  /\ a1[3] * a2[4] = a2[3] * a1[4]

\* C21: two parameter sets compare equal exactly when the integers that built
\* them denote the same rational mu and the same rational sigma, whichever
\* constructor built them and whether or not the fractions were reduced.
C21_EqualityInLowestTerms ==
  last.op = "equal" =>
    (last.ret <=> SameRationals(Denoted(par.p1.args), Denoted(par.p2.args)))

\* equal objects from a two-integer and a four-integer constructor with an
\* unreduced negative mu
C21_Witness ==
  /\ last.op = "equal" /\ last.ret
  /\ par.p1.args = <<-2, 2>>
  /\ par.p2.args = <<-4, 2, 4, 2>>

\* mu = 0 over two different denominators, one from the default constructor
C21_WitnessZero ==
  /\ last.op = "equal" /\ last.ret
  /\ par.p1.args = <<>>
  /\ par.p2.args = <<0, 4, 2, 2>>

\* two objects with the same mu and different sigma are unequal
C21_WitnessUnequal ==
  /\ last.op = "equal" /\ ~last.ret
  /\ par.p1.args = <<2, 2, 4>>
  /\ par.p2.args = <<2, 4, 4>>

(***************************************************************************)
(* table_gen as the generator of a u-rand: a rand_table D, a table_gen g   *)
(* and a u-rand x over D, as in tabulate_normals.  loc holds _seed, _pos   *)
(* and D's _count, and the number of digits g has yielded since its seed   *)
(* was set.                                                                *)
(***************************************************************************)
\* table_gen::seed
table_gen_seed(seed) == [seed |-> seed, pos |-> 0]

\* u_rand::digit(g, k) over a rand_table: _d.push_back(_D(g)) for every
\* missing digit up to k; a draw that throws ends the call before push_back
RECURSIVE u_rand_digit_table(_, _, _, _, _)
u_rand_digit_table(u, k, count, seed, pos) ==
  IF Len(u.d) > k
  THEN [u |-> u, count |-> count, pos |-> pos, ok |-> TRUE, val |-> u.d[k + 1]]
  ELSE LET r == rand_table_call(count, seed, pos) IN
       IF ~r.ok
       THEN [u |-> u, count |-> r.count, pos |-> r.pos, ok |-> FALSE, val |-> 0]
       ELSE u_rand_digit_table([u EXCEPT !.d = Append(u.d, r.val)], k,
                               r.count, seed, r.pos)

\* the seeds of the table: the characters '0' and 'A', given less '0'
TableChars == {0, 17}
TableSeeds == UNION {[1..n -> TableChars] : n \in 0..MaxSeed}

InitTable ==
  /\ b = 10
  /\ ur = [w \in UNames |-> u_rand_init]
  /\ h = i_rand_construct
  /\ pc = "idle"
  /\ par = [source |-> "rand_table", gen |-> "table_gen"]
  /\ loc = [count |-> 0, seed |-> <<>>, pos |-> 0, yielded |-> 0]
  /\ last = Idle

\* g.seed(seed)
GSeed ==
  /\ last = Idle
  /\ \E seed \in TableSeeds :
       LET r == table_gen_seed(seed) IN
       /\ loc' = [loc EXCEPT !.seed = r.seed, !.pos = r.pos, !.yielded = 0]
       /\ last' = [op |-> "seed", pre |-> loc, prex |-> ur["x"],
                   ok |-> TRUE, val |-> 0]
  /\ UNCHANGED <<b, ur, h, pc, par>>

\* d = g()
GCall ==
  /\ last = Idle
  /\ LET r == table_gen_call(loc.seed, loc.pos) IN
     /\ loc' = [loc EXCEPT !.pos = r.pos,
                           !.yielded = IF r.ok THEN @ + 1 ELSE @]
     /\ last' = [op |-> "call", pre |-> loc, prex |-> ur["x"],
                 ok |-> r.ok, val |-> r.val]
  /\ UNCHANGED <<b, ur, h, pc, par>>

\* x.digit(g, k)
GXDigit ==
  /\ last = Idle
  /\ loc.count < MaxCount
  /\ \E k \in 0..2 :
       LET r == u_rand_digit_table(ur["x"], k, loc.count, loc.seed, loc.pos) IN
       /\ ur' = [ur EXCEPT !["x"] = r.u]
       /\ loc' = [loc EXCEPT !.count = r.count, !.pos = r.pos,
                             !.yielded = @ + Len(r.u.d) - Len(ur["x"].d)]
       /\ last' = [op |-> "digit", pre |-> loc, prex |-> ur["x"],
                   ok |-> r.ok, val |-> r.val, k |-> k]
  /\ UNCHANGED <<b, h, pc, par>>

\* x.init()
GXInit ==
  /\ last = Idle
  /\ ur["x"] # u_rand_init
  /\ ur' = [ur EXCEPT !["x"] = u_rand_init]
  /\ UNCHANGED <<b, h, pc, loc, par, last>>

NextTable ==
  \/ GSeed
  \/ GCall
  \/ GXDigit
  \/ GXInit
  \/ Return

SpecTable == InitTable /\ [][NextTable]_vars

\* the digit a character of the seed (its code less '0') stands for; a
\* character that is no digit stands for 9
SeedDigit(c) == IF 0 <= c /\ c <= 9 THEN c ELSE 9

\* digits i+1 .. j of the seed
SeedDigits(seed, i, j) == [n \in 1..(j - i) |-> SeedDigit(seed[i + n])]

\* C22: table_gen yields the digits of its seed in order, one per call, each
\* in [0, 9]; when all have been yielded every call fails with an overflow
\* error and yields nothing, until seed() restarts at the first digit of the
\* new string; a u-rand drawing a digit when the failure occurs keeps exactly
\* the digits it had before that draw.
C22_TableGen ==
  /\ loc.pos = loc.yielded
  /\ last.op = "seed" => loc.yielded = 0 /\ ur["x"] = last.prex
  /\ last.op = "call" =>
       /\ last.ok <=> last.pre.yielded < Len(last.pre.seed)
       /\ last.ok =>
            /\ last.val = SeedDigit(last.pre.seed[last.pre.yielded + 1])
            /\ last.val \in 0..9
            /\ loc.yielded = last.pre.yielded + 1
       /\ ~last.ok => loc.yielded = last.pre.yielded
       /\ loc.seed = last.pre.seed
  /\ last.op = "digit" =>
       /\ loc.seed = last.pre.seed
       /\ ur["x"].d = last.prex.d
                        \o SeedDigits(loc.seed, last.pre.yielded, loc.yielded)
       /\ ur["x"].s = last.prex.s /\ ur["x"].n = last.prex.n
       /\ last.ok <=> Len(ur["x"].d) > last.k
       /\ ~last.ok => loc.yielded = Len(loc.seed)
       /\ last.ok => loc.yielded - last.pre.yielded
                       = Max2(0, last.k + 1 - Len(last.prex.d))

\* a u-rand asked for its third digit when the seed has one digit left: the
\* digit is pushed, the next draw fails, the u-rand keeps two digits
C22_Witness ==
  /\ last.op = "digit" /\ ~last.ok /\ last.k = 2
  /\ Len(last.prex.d) = 1
  /\ Len(ur["x"].d) = 2
  /\ last.pre.yielded = Len(loc.seed) - 1

\* the first call on a new seed, the u-rand holding digits of an earlier one
C22_WitnessReseed ==
  /\ last.op = "call" /\ last.ok /\ last.pre.yielded = 0
  /\ last.val = 9
  /\ Len(loc.seed) = 1 /\ Len(ur["x"].d) = 2

\* a failing call
C22_WitnessOverflow ==
  /\ last.op = "call" /\ ~last.ok /\ Len(loc.seed) = 2

(***************************************************************************)
(* Termination of generate.  One pass through the retry loop of generate   *)
(* (an iteration) is an operation on the digits to come; ret tells whether *)
(* the iteration ends in return or goes round the loop again.  The machine *)
(* draws one digit at a step: ur and h hold the sampler as the iteration   *)
(* found it, loc.tape the digits drawn in the iteration so far, loc.k the  *)
(* iterations that went round again, loc.ends the digit sequences on which *)
(* the iteration ends.                                                     *)
(***************************************************************************)
MaxLiveDraw == 6   \* digits one iteration may draw
MaxLiveK == 1      \* iterations counted; the loops do not read the count

\* unit_exponential_dist::generate: one evaluation of while (!F(g, x)) ++k;
\* and, when F is true, the rest of the function
exp_iteration(base, bit_optimized, S, t, k) ==
  Let(exp_F(base, bit_optimized, S.x, S.v, S.w, t), LAMBDA r :
    [s |-> [S EXCEPT !.x = IF r.ok /\ r.ret
                           THEN exp_finish(base, bit_optimized, k, r.p) ELSE r.p,
                     !.v = r.v, !.w = r.w],
     t |-> r.t, ok |-> r.ok, ret |-> r.ok /\ r.ret])

\* mutant: step 2 goes on when P is false
normal_iteration_notP(base, S, t) ==
  Let(normal_G(base, S.y, S.z, t, 0), LAMBDA g1 :
  IF ~g1.ok
  THEN [s |-> [S EXCEPT !.y = g1.y, !.z = g1.z], t |-> <<>>, ok |-> FALSE, ret |-> FALSE]
  ELSE
    Let(normal_P(base, g1.y, g1.z, g1.t, g1.ret * (g1.ret - 1)), LAMBDA p2 :
    IF ~p2.ok \/ p2.ret
    THEN [s |-> [S EXCEPT !.y = p2.y, !.z = p2.z], t |-> p2.t, ok |-> p2.ok,
          ret |-> FALSE]
    ELSE
      Let(normal_step4(base, g1.ret, normal_step3(S.x), p2.y, p2.z, p2.t, g1.ret + 1),
          LAMBDA b4 :
      IF ~b4.ok \/ ~b4.ret
      THEN [s |-> [S EXCEPT !.x = b4.x, !.y = b4.y, !.z = b4.z], t |-> b4.t,
            ok |-> b4.ok, ret |-> FALSE]
      ELSE
        Let(u_rand_less_than_half(base, u_rand_init, b4.t), LAMBDA r6 :
          [s |-> [S EXCEPT !.x = IF r6.ok /\ r6.ret
                                 THEN u_rand_negate(u_rand_set_integer(b4.x, g1.ret))
                                 ELSE u_rand_set_integer(b4.x, g1.ret),
                           !.y = r6.u, !.z = b4.z],
           t |-> r6.t, ok |-> r6.ok, ret |-> r6.ok]))))

\* unit_normal_dist::generate: the body of for (;;)
normal_iteration(base, S, t) ==
  \* int k = G(g);
  Let(normal_G(base, S.y, S.z, t, 0), LAMBDA g1 :
  IF ~g1.ok
  THEN [s |-> [S EXCEPT !.y = g1.y, !.z = g1.z], t |-> <<>>, ok |-> FALSE, ret |-> FALSE]
  ELSE
    \* if (!P(g, k * (k - 1))) continue;
    Let(normal_P(base, g1.y, g1.z, g1.t, g1.ret * (g1.ret - 1)), LAMBDA p2 :
    IF ~p2.ok \/ ~p2.ret
    THEN [s |-> [S EXCEPT !.y = p2.y, !.z = p2.z], t |-> p2.t, ok |-> p2.ok,
          ret |-> FALSE]
    ELSE
      \* x.init(); int j = k + 1; while (j-- && B(g, k, x)) {};
      \* if (!(j < 0)) continue;
      Let(normal_step4(base, g1.ret, normal_step3(S.x), p2.y, p2.z, p2.t, g1.ret + 1),
          LAMBDA b4 :
      IF ~b4.ok \/ ~b4.ret
      THEN [s |-> [S EXCEPT !.x = b4.x, !.y = b4.y, !.z = b4.z], t |-> b4.t,
            ok |-> b4.ok, ret |-> FALSE]
      ELSE
        \* x.set_integer(k); if (_y.init().less_than_half(g)) x.negate(); return;
        Let(u_rand_less_than_half(base, u_rand_init, b4.t), LAMBDA r6 :
          [s |-> [S EXCEPT !.x = IF r6.ok /\ r6.ret
                                 THEN u_rand_negate(u_rand_set_integer(b4.x, g1.ret))
                                 ELSE u_rand_set_integer(b4.x, g1.ret),
                           !.y = r6.u, !.z = b4.z],
           t |-> r6.t, ok |-> r6.ok, ret |-> r6.ok]))))

\* discrete_normal_dist::generate: the body of for (;;)
discrete_iteration(base, D, S, t) ==
  Let(normal_G(base, S.y, S.z, t, 0), LAMBDA g1 :
  IF ~g1.ok
  THEN [s |-> [S EXCEPT !.y = g1.y, !.z = g1.z], t |-> <<>>, ok |-> FALSE, ret |-> FALSE]
  ELSE
    Let(normal_P(base, g1.y, g1.z, g1.t, g1.ret * (g1.ret - 1)), LAMBDA p2 :
    IF ~p2.ok \/ ~p2.ret
    THEN [s |-> [S EXCEPT !.y = p2.y, !.z = p2.z], t |-> p2.t, ok |-> p2.ok,
          ret |-> FALSE]
    ELSE
      Let(discrete_candidate(base, D, g1.ret, [S EXCEPT !.y = p2.y, !.z = p2.z], p2.t),
          LAMBDA c : [s |-> c.s, t |-> c.t, ok |-> c.ok, ret |-> c.ok /\ c.ret])))

\* one iteration of generate of the sampler of the kind and parameters P
Iteration(base, P, S, t, k) ==
  IF P.kind = "exponential" THEN exp_iteration(base, P.bit_optimized, S, t, k)
  ELSE IF P.kind = "normal" THEN normal_iteration(base, S, t)
  ELSE discrete_iteration(base, P.dist, S, t)

LiveBases == {2}
LiveDigits == UNION {0..(base - 1) : base \in LiveBases}

LiveKinds(base) == {P \in TwinKinds(base) : P.kind # "uniform"}

InitLive ==
  /\ b \in LiveBases
  /\ ur = [w \in TNames |-> u_rand_init]
  /\ h = i_rand_construct
  /\ pc = "idle"
  /\ loc = [tape |-> <<>>, k |-> 0, ends |-> {}]
  /\ par \in LiveKinds(b)
  /\ last = Idle

\* the iteration in progress on the digits t
Running(t) == Iteration(b, par, Sampler1, t, loc.k)

\* the digit sequences that end an iteration of the sampler S within the
\* bound, each with the way the iteration ends
Endings(S, k) ==
  {[t |-> c, ret |-> Iteration(b, par, S, c, k).ret] :
     c \in ValidTapes(b, LAMBDA tt : Iteration(b, par, S, tt, k), <<>>, MaxLiveDraw)}

\* the endings that begin with the digits t
EndingsFrom(e, t) == {c \in e : IsPrefix(t, c.t)}

\* generate is called
LStart ==
  /\ pc = "idle"
  /\ pc' = "begin"
  /\ loc' = [tape |-> <<>>, k |-> 0, ends |-> {}]
  /\ last' = Idle
  /\ UNCHANGED <<b, ur, h, par>>

\* for (;;) {  -- the digit sequences that end this iteration are fixed by
\* the sampler as the iteration finds it
LBegin ==
  /\ pc = "begin"
  /\ pc' = "iteration"
  /\ loc' = [loc EXCEPT !.ends = Endings(Sampler1, loc.k)]
  /\ UNCHANGED <<b, ur, h, par, last>>

\* the iteration asks for a digit and the source delivers dg
LDraw(dg) ==
  /\ pc = "iteration"
  /\ dg < b
  /\ \A c \in loc.ends : c.t # loc.tape
  /\ EndingsFrom(loc.ends, Append(loc.tape, dg)) # {}
  /\ loc' = [loc EXCEPT !.tape = Append(@, dg)]
  /\ last' = [op |-> "draw", d |-> dg]
  /\ UNCHANGED <<b, ur, h, pc, par>>

\* continue: the next iteration starts on the sampler this one leaves
LContinue ==
  /\ pc = "iteration"
  /\ [t |-> loc.tape, ret |-> FALSE] \in loc.ends
  /\ LET r == Running(loc.tape) IN
     /\ ur' = [w \in TNames |-> r.s[w]]
     /\ h' = r.s.j
  /\ loc' = [tape |-> <<>>, k |-> Min2(loc.k + 1, MaxLiveK), ends |-> {}]
  /\ pc' = "begin"
  /\ last' = Idle
  /\ UNCHANGED <<b, par>>

\* return
LReturn ==
  /\ pc = "iteration"
  /\ [t |-> loc.tape, ret |-> TRUE] \in loc.ends
  /\ LET r == Running(loc.tape) IN
     /\ ur' = [w \in TNames |-> r.s[w]]
     /\ h' = r.s.j
  /\ pc' = "idle"
  /\ last' = [op |-> "generate", drawn |-> loc.tape]
  /\ UNCHANGED <<b, loc, par>>

NextLive ==
  \/ LStart
  \/ LBegin
  \/ \E dg \in LiveDigits : LDraw(dg)
  \/ LContinue
  \/ LReturn

\* the sampler is CPU-bound and never blocks: it takes its next step
SpecLive == InitLive /\ [][NextLive]_vars /\ WF_vars(NextLive)

\* the least number of digits after t with which the iteration can end in
\* return
Rank(e, t) ==
  LET acc == {Len(c.t) - Len(t) : c \in {c \in EndingsFrom(e, t) : c.ret}} IN
  IF acc = {} THEN MaxLiveDraw + 1
  ELSE CHOOSE n \in acc : \A m \in acc : n <= m

\* the iteration is r digits from return
Within(r) == pc = "iteration" /\ Rank(loc.ends, loc.tape) = r

\* a digit is drawn that brings the iteration from r to r - 1 digits of return
Nearer(r) ==
  /\ Within(r)
  /\ loc'.tape # <<>>
  /\ Rank(loc'.ends, loc'.tape) = r - 1

\* the digits are fair in every state: where the iteration is r digits from
\* return again and again, a digit that brings return nearer, which is one of
\* the digits of the base, is drawn again and again
FairInEveryState ==
  \A r \in 1..MaxLiveDraw : ([]<>Within(r)) => ([]<><<Nearer(r)>>_vars)

\* every digit value keeps occurring
EveryDigitKeepsOccurring ==
  \A dg \in LiveDigits : []<>(dg >= b \/ (last.op = "draw" /\ last.d = dg))

C23_WitnessDiscrete ==
  /\ pc = "idle" /\ last.op = "generate"
  /\ loc.k = MaxLiveK
  /\ par.kind = "discrete" /\ par.dist.sig = 3

(***************************************************************************)
(* The integers generate computes.  long long has 2 * IntBits bits and int *)
(* IntBits; an operation whose mathematical result does not fit its type   *)
(* is undefined behaviour.  The machine walks one iteration of             *)
(* discrete_normal_dist::generate from step 6 on and keeps in loc.vals the *)
(* long long results and in loc.ints the int results of the step just      *)
(* taken, each as the mathematical value of the operation on the operands  *)
(* the program holds.  Steps 1 and 2 are taken as a whole: for every k     *)
(* there are digits on which G returns k and P accepts (in base 2, k ones, *)
(* then 0 1, then k(k-1) ones).  Step 4 is walked call by call: a run of B *)
(* calls compare(g, 1, 2, m) and less_than(g, xn0, _d, _sig, j), and the   *)
(* machine lets either be called again, whatever the last one returned.    *)
(***************************************************************************)
InLL(x) == -maxll - 1 <= x /\ x <= maxll
InInt(x) == minint <= x /\ x <= maxint

\* the value modulo 2^(2 * IntBits)
ToLL(x) == ((x + maxll + 1) % Pow(2, 2 * IntBits)) - maxll - 1

\* what a long long holds after an operation with result x: x when it fits,
\* and after an overflow the wrapped value or either end of the range
LLResults(x) == IF InLL(x) THEN {x} ELSE {ToLL(x), -maxll - 1, maxll}

\* the products n * max() and n * min() of i_rand::less_than(g, m, n)
RECURSIVE i_rand_less_than_values(_, _, _, _, _)
i_rand_less_than_values(base, hh, m, n, t) ==
  IF n * i_rand_max(hh) < m THEN {n * i_rand_max(hh)}
  ELSE IF ~(n * i_rand_min(hh) < m) THEN {n * i_rand_max(hh), n * i_rand_min(hh)}
  ELSE Let(i_rand_refine(base, hh, t), LAMBDA r :
         {n * i_rand_max(hh), n * i_rand_min(hh)}
           \cup (IF ~r.ok \/ hh.l = 0 THEN {}
                 ELSE i_rand_less_than_values(base, r.h, m, n, r.t)))

\* the long long values of the condition of step 6
discrete_reject_values(base, D, k, s, xn0, hh, t) ==
  Let(i_rand_less_than(base, hh, D.sig - xn0, D.d, t), LAMBDA r1 :
    {D.sig - xn0} \cup i_rand_less_than_values(base, hh, D.sig - xn0, D.d, t)
      \cup (IF r1.ok /\ r1.ret /\ k = 0 /\ s < 0
            THEN {-xn0, -xn0 + 1}
                   \cup i_rand_less_than_values(base, r1.h, -xn0 + 1, D.d, r1.t)
            ELSE {}))

\* the products and differences of the loop of u_rand::compare
RECURSIVE u_rand_compare_loop_values(_, _, _, _, _, _, _)
u_rand_compare_loop_values(base, u, u1, u2, v, t, k) ==
  IF u1 >= v \/ u2 <= 0 \/ (u1 <= 0 /\ u2 >= v) THEN {}
  ELSE
    Let(u_rand_digit(u, k, t), LAMBDA r :
    IF ~r.ok THEN {}
    ELSE {u1 * base, u2 * base, r.val * v, u1 * base - r.val * v, u2 * base - r.val * v}
           \cup u_rand_compare_loop_values(base, r.u, Max2(0, u1 * base - r.val * v),
                                           Min2(v, u2 * base - r.val * v), v, r.t, k + 1))

\* the long long values of u_rand::compare(g, u1, u2, v)
u_rand_compare_values(base, u, u1, u2, v, t) ==
  {u.s * u1, u.s * u2, u.n * v, u.s * u1 - u.n * v, u.s * u2 - u.n * v}
    \cup u_rand_compare_loop_values(base, u, Max2(0, u.s * u1 - u.n * v),
                                    Min2(v, u.s * u2 - u.n * v), v, t, 0)

\* the long long values of u_rand::less_than(g, u0, c, v, h)
RECURSIVE u_rand_less_than_irand_values(_, _, _, _, _, _, _)
u_rand_less_than_irand_values(base, u, u0, c, v, hh, t) ==
  LET lo == u0 + i_rand_min(hh) * c
      hi == u0 + i_rand_max(hh) * c
  IN
  {i_rand_min(hh) * c, i_rand_max(hh) * c, lo, hi}
    \cup u_rand_compare_values(base, u, lo, hi, v, t)
    \cup Let(u_rand_compare(base, u, lo, hi, v, t), LAMBDA r :
           IF ~r.ok \/ r.ret # 0 \/ hh.l = 0 THEN {}
           ELSE Let(i_rand_refine(base, hh, r.t), LAMBDA rr :
                  IF ~rr.ok THEN {}
                  ELSE u_rand_less_than_irand_values(base, r.u, u0, c, v, rr.h, rr.t)))

\* the k that steps 1 and 2 pass on: k < kmax
RKValues == {0, 1, 2, kmax - 2, kmax - 1}

\* parameters of the samplers: those of DParams, sigma = 10 (the largest
\* ceil(sigma) the constructor accepts), and mu = 510/511 with
\* sigma = 10/351, 1/351 and 10/3
RParams ==
  DParams \cup
  {[mu_num |-> 0, mu_den |-> 1, sigma_num |-> 10, sigma_den |-> 1],
   [mu_num |-> 510, mu_den |-> 511, sigma_num |-> 10, sigma_den |-> 351],
   [mu_num |-> 510, mu_den |-> 511, sigma_num |-> 1, sigma_den |-> 351],
   [mu_num |-> 510, mu_den |-> 511, sigma_num |-> 10, sigma_den |-> 3]}

RLocals == [k |-> 0, s |-> 0, xn0 |-> 0, i0 |-> 0, vals |-> {}, ints |-> {}, calls |-> 0]

\* a sampler that the constructor accepted
InitRange ==
  /\ b = 2
  /\ ur = [w \in DNames |-> u_rand_init]
  /\ h = i_rand_construct
  /\ pc = "idle"
  /\ loc = RLocals
  /\ \E p \in RParams : /\ discrete_init(b, p).ok
                        /\ par = discrete_init(b, p).dist
  /\ last = Idle

\* int k = G(g); if (!P(g, k * (k - 1))) continue;  with P accepting
RSteps12(k) ==
  /\ pc = "idle"
  /\ pc' = "step6"
  /\ loc' = [RLocals EXCEPT !.k = k]
  /\ last' = Idle
  /\ UNCHANGED <<b, ur, h, par>>

\* int s = j.init(g,2)(g) ? -1 : 1;  long long xn0 = _sig * k + s * _mu;
\* int i0 = int(iceil(xn0, _d));  xn0 = i0 * _d - xn0;
RCandidate ==
  /\ pc = "step6"
  /\ \E t \in ValidTapes(b, LAMBDA tt : discrete_sign(b, h, tt), <<>>, 1) :
       LET r == discrete_sign(b, h, t)
           s == IF r.ret # 0 THEN -1 ELSE 1
           xn == par.sig * loc.k + s * par.mu
           c == iceil(xn, par.d)
           i0 == ToInt(c)
       IN
       /\ h' = r.h
       /\ \E x \in LLResults(i0 * par.d) :
            loc' = [loc EXCEPT !.s = s, !.i0 = i0, !.xn0 = x - xn,
                               !.vals = {par.sig * loc.k, s * par.mu, xn, CDiv(xn, par.d),
                                         CDiv(xn, par.d) * par.d, c, i0 * par.d, x - xn},
                               !.ints = {c}]
       /\ last' = [op |-> "candidate", drawn |-> t]
  /\ pc' = "init"
  /\ UNCHANGED <<b, ur, par>>

\* j.init(g, _isig);
RInit ==
  /\ pc = "init"
  /\ \E t \in ValidTapes(b, LAMBDA tt : i_rand_init(b, h, par.isig, tt), <<>>, MaxIDraw) :
       /\ h' = i_rand_init(b, h, par.isig, t).h
       /\ last' = [op |-> "init", drawn |-> t]
  /\ pc' = "test"
  /\ loc' = [loc EXCEPT !.vals = {}, !.ints = {}]
  /\ UNCHANGED <<b, ur, par>>

\* if (!j.less_than(g, _sig - xn0, _d) ||
\*     (k == 0 && s < 0 && !j.greater_than(g, -xn0, _d))) continue;
RTest ==
  /\ pc = "test"
  /\ \E t \in ValidTapes(b, LAMBDA tt : discrete_reject(b, par, loc.k, loc.s, loc.xn0, h, tt),
                          <<>>, MaxIDraw) :
       LET r == discrete_reject(b, par, loc.k, loc.s, loc.xn0, h, t) IN
       /\ h' = r.h
       /\ loc' = [loc EXCEPT
                    !.vals = discrete_reject_values(b, par, loc.k, loc.s, loc.xn0, h, t),
                    !.ints = {}]
       /\ last' = [op |-> "test", drawn |-> t, rejected |-> r.ret]
       /\ pc' = IF r.ret THEN "idle" ELSE "step4"
  /\ UNCHANGED <<b, ur, par>>

\* in B: _z.init().compare(g, 1, 2, m) with m = 2 * k + 2
RB_Compare ==
  /\ pc = "step4"
  /\ loc.calls < 2
  /\ \E t \in ValidTapes(b, LAMBDA tt : u_rand_compare(b, u_rand_init, 1, 2, 2 * loc.k + 2, tt),
                          <<>>, 2) :
       LET r == u_rand_compare(b, u_rand_init, 1, 2, 2 * loc.k + 2, t) IN
       /\ ur' = [ur EXCEPT !.z = r.u]
       /\ loc' = [loc EXCEPT
                    !.vals = u_rand_compare_values(b, u_rand_init, 1, 2, 2 * loc.k + 2, t),
                    !.ints = {2 * loc.k + 2},
                    !.calls = @ + 1]
       /\ last' = [op |-> "compare", drawn |-> t, ret |-> r.ret]
  /\ UNCHANGED <<b, h, pc, par>>

\* in B: _z.init(); _z.less_than(g, xn0, _d, _sig, j)
RB_Less ==
  /\ pc = "step4"
  /\ loc.calls < 2
  /\ \E t \in ValidTapes(b, LAMBDA tt : u_rand_less_than_irand(b, u_rand_init, loc.xn0, par.d,
                                                               par.sig, h, tt),
                          <<>>, MaxIDraw) :
       LET r == u_rand_less_than_irand(b, u_rand_init, loc.xn0, par.d, par.sig, h, t) IN
       /\ ur' = [ur EXCEPT !.z = r.u]
       /\ h' = r.h
       /\ loc' = [loc EXCEPT
                    !.vals = u_rand_less_than_irand_values(b, u_rand_init, loc.xn0, par.d,
                                                           par.sig, h, t),
                    !.ints = {},
                    !.calls = @ + 1]
       /\ last' = [op |-> "less_than", drawn |-> t, ret |-> r.ret]
  /\ UNCHANGED <<b, pc, par>>

\* if (!(h < 0)) continue;
RContinue ==
  /\ pc = "step4"
  /\ pc' = "idle"
  /\ loc' = [loc EXCEPT !.vals = {}, !.ints = {}]
  /\ last' = Idle
  /\ UNCHANGED <<b, ur, h, par>>

\* j.add(i0 + s*_imu); if (s < 0) j.negate(); return;
RAdd ==
  /\ pc = "step4"
  /\ LET c == loc.i0 + loc.s * par.imu
         jj == i_rand_add(h, ToInt(c))
         res == IF loc.s < 0 THEN i_rand_negate(jj) ELSE jj
     IN
     /\ h' = res
     /\ loc' = [loc EXCEPT !.vals = {},
                           !.ints = {loc.s * par.imu, c, h.a + ToInt(c), i_rand_max(jj),
                                     -i_rand_max(jj), i_rand_min(res), i_rand_max(res)}]
     /\ last' = [op |-> "generate", k |-> loc.k, s |-> loc.s]
  /\ pc' = "idle"
  /\ UNCHANGED <<b, ur, par>>

NextRange ==
  \/ \E k \in RKValues : RSteps12(k)
  \/ RCandidate
  \/ RInit
  \/ RTest
  \/ RB_Compare
  \/ RB_Less
  \/ RContinue
  \/ RAdd

SpecRange == InitRange /\ [][NextRange]_vars

\* C25: for parameters the constructor accepts and digits on which k stays
\* below kmax, every long long that generate computes lies within the range
\* of long long and every int within the range of int.
C25_WithinRange ==
  /\ \A x \in loc.vals : InLL(x)
  /\ \A x \in loc.ints : InInt(x)

(***************************************************************************)
(* Lumbroso's algorithm in base b, the reference i_rand::init is set       *)
(* against: v = 1, c = 0; when v >= m and c lies in one of the v / m       *)
(* complete blocks of m, return c mod m, otherwise take the complete       *)
(* blocks from v and c; then v = v * b, c = c * b + digit.  n counts the   *)
(* digits drawn; block is the block of c at the return.                    *)
(***************************************************************************)
RECURSIVE lumbroso_loop(_, _, _, _, _, _)
lumbroso_loop(base, m, v, c, t, n) ==
  LET j == CDiv(v, m) * m IN
  IF v >= m /\ c < j
  THEN [ok |-> TRUE, t |-> t, ret |-> c % m, block |-> CDiv(c, m), n |-> n]
  ELSE IF t = <<>> THEN [ok |-> FALSE, t |-> <<>>, ret |-> 0, block |-> 0, n |-> n]
  ELSE Let(<<(v - j) * base, (c - j) * base + Head(t)>>, LAMBDA w :
         lumbroso_loop(base, m, w[1], w[2], Tail(t), n + 1))

lumbroso(base, m, t) == lumbroso_loop(base, m, 1, 0, t, 0)

\* every sequence of len more digits after p is returned by the reference at
\* its last digit, all in one block
SameLaterStep(base, m, p, len) ==
  LET runs == {lumbroso(base, m, p \o e) : e \in TapesOfLen(base, len)} IN
  /\ \A r \in runs : r.ok /\ r.t = <<>>
  /\ \A r1, r2 \in runs : r1.block = r2.block

\* the lengths the inner loop of init can look ahead
LookAhead == 0..(MaxIDraw + 1)

(***************************************************************************)
(* The machine of init(g, m) followed by operator()(g) on one i-rand.      *)
(* loc holds m and the digits init drew.                                   *)
(***************************************************************************)
InitLu ==
  /\ b \in Bases
  /\ ur = <<>>
  /\ h = i_rand_construct
  /\ pc = "idle"
  /\ loc = [m |-> 0, first |-> <<>>]
  /\ par = <<>>
  /\ last = Idle

\* h.init(g, m)
LuInit ==
  /\ pc = "idle"
  /\ \E m \in 1..MaxM :
     \E t \in ValidTapes(b, LAMBDA tt : i_rand_init(b, h, m, tt), <<>>, MaxIDraw) :
       /\ h' = i_rand_init(b, h, m, t).h
       /\ loc' = [m |-> m, first |-> t]
       /\ last' = [op |-> "init", m |-> m, drawn |-> t]
  /\ pc' = "made"
  /\ UNCHANGED <<b, ur, par>>

\* h(g)
LuCall ==
  /\ pc = "made"
  /\ \E t \in ValidTapes(b, LAMBDA tt : i_rand_call(b, h, tt), <<>>, MaxIDraw + 1) :
       LET r == i_rand_call(b, h, t) IN
       /\ h' = r.h
       /\ last' = [op |-> "call", m |-> loc.m, drawn |-> t, ret |-> r.ret]
  /\ pc' = "idle"
  /\ UNCHANGED <<b, ur, loc, par>>

NextLu == LuInit \/ LuCall

SpecLu == InitLu /\ [][NextLu]_vars

\* C26: init(g, m) followed by operator()(g) draws the digits and returns
\* the integer of Lumbroso's algorithm in base b on the same digits; and
\* init returns after the digits p, leaving l to draw, exactly when p is the
\* first point from which every sequence of some number of further digits
\* (l of them) is returned by Lumbroso's algorithm at the same step and in
\* the same block.
C26_Lumbroso ==
  /\ (last.op = "call") =>
       LET r == lumbroso(b, loc.m, loc.first \o last.drawn) IN
       /\ r.ok /\ r.t = <<>>
       /\ r.n = Len(loc.first) + Len(last.drawn)
       /\ r.ret = last.ret
       /\ h.l = 0 /\ h.a = last.ret
  /\ (last.op = "init") =>
       /\ SameLaterStep(b, loc.m, loc.first, h.l)
       /\ h.d = Pow(b, h.l)
       /\ \A e \in TapesOfLen(b, h.l) :
            lumbroso(b, loc.m, loc.first \o e).ret \in i_rand_min(h)..i_rand_max(h)
       /\ \A n \in 0..(Len(loc.first) - 1) : \A len \in LookAhead :
            ~SameLaterStep(b, loc.m, SubSeq(loc.first, 1, n), len)

\* init(g, 9) in base 2 stops after 1, 0, 1: the range is 2..5 with two
\* digits to draw, and the call returns 4 on 1, 0
C26_Witness ==
  /\ b = 2 /\ last.op = "call" /\ loc.m = 9
  /\ loc.first = <<1, 0, 1>> /\ last.drawn = <<1, 0>> /\ last.ret = 4

\* init drew digits that Lumbroso's algorithm gives back (c not in a
\* complete block) before it stopped
C26_WitnessRejected ==
  /\ last.op = "init" /\ loc.m = 3 /\ b = 2 /\ loc.first = <<1, 1, 0>>

(***************************************************************************)
(* The candidates of the discrete sampler.  One iteration of generate      *)
(* from step 6 on, with k, the sign s and the integer that j holds when it *)
(* is sampled in full as the inputs: the tests of step 6 on j give what    *)
(* they give on that integer.  loc holds k, s, i0, xn0 and the integer.    *)
(***************************************************************************)
MaxTK == 3         \* largest k of a candidate

\* long long xn0 = _sig * k + s * _mu; int i0 = int(iceil(xn0, _d));
\* xn0 = i0 * _d - xn0;
discrete_step5(D, k, s) ==
  LET xn == D.sig * k + s * D.mu
      i0 == ToInt(iceil(xn, D.d))
  IN [i0 |-> i0, xn0 |-> i0 * D.d - xn]

\* j.add(i0 + s*_imu); if (s < 0) j.negate();
discrete_step56(D, s, i0, hh) ==
  LET jj == i_rand_add(hh, ToInt(i0 + s * D.imu)) IN
  IF s < 0 THEN i_rand_negate(jj) ELSE jj

\* the i-rand that is the integer v
i_rand_integer(v) == [a |-> v, d |-> 1, l |-> 0]

\* mu = 0, sigma = 1/2; mu = 2, sigma = 3/2; mu = -1/2, sigma = 10/3, and
\* the parameters of DParams
TParams ==
  DParams \cup
  {[mu_num |-> 0, mu_den |-> 1, sigma_num |-> 1, sigma_den |-> 2],
   [mu_num |-> 2, mu_den |-> 1, sigma_num |-> 3, sigma_den |-> 2],
   [mu_num |-> -1, mu_den |-> 2, sigma_num |-> 10, sigma_den |-> 3]}

TLocals == [k |-> 0, s |-> 0, i0 |-> 0, xn0 |-> 0, hv |-> 0]

InitTriple ==
  /\ b \in Bases
  /\ ur = <<>>
  /\ h = i_rand_construct
  /\ pc = "idle"
  /\ loc = TLocals
  /\ \E p \in TParams : par = discrete_init(b, p).dist
  /\ last = Idle

\* steps 1 and 2 pass k on, the sign is s: xn0 and i0 are computed
TCandidate ==
  /\ pc = "idle"
  /\ \E k \in 0..MaxTK, s \in {-1, 1} :
       LET c == discrete_step5(par, k, s) IN
       loc' = [k |-> k, s |-> s, i0 |-> c.i0, xn0 |-> c.xn0, hv |-> 0]
  /\ pc' = "init"
  /\ last' = Idle
  /\ UNCHANGED <<b, ur, h, par>>

\* j.init(g, _isig), j being the integer v in the end
TInit ==
  /\ pc = "init"
  /\ \E v \in 0..(par.isig - 1) :
       /\ h' = i_rand_integer(v)
       /\ loc' = [loc EXCEPT !.hv = v]
  /\ pc' = "test"
  /\ last' = Idle
  /\ UNCHANGED <<b, ur, par>>

\* the tests of step 6: continue, or steps 5 and 6 and return.  (Step 4
\* accepts with a probability that is not zero.)
TTest ==
  /\ pc = "test"
  /\ LET r == discrete_reject(b, par, loc.k, loc.s, loc.xn0, h, <<>>) IN
     IF r.ret
     THEN /\ h' = r.h
          /\ last' = [op |-> "continue", k |-> loc.k, s |-> loc.s, hv |-> loc.hv]
     ELSE /\ h' = discrete_step56(par, loc.s, loc.i0, r.h)
          /\ last' = [op |-> "generate", k |-> loc.k, s |-> loc.s, hv |-> loc.hv,
                      i |-> discrete_step56(par, loc.s, loc.i0, r.h).a]
  /\ pc' = "idle"
  /\ UNCHANGED <<b, ur, loc, par>>

NextTriple == TCandidate \/ TInit \/ TTest

SpecTriple == InitTriple /\ [][NextTriple]_vars

\* the triples (k, s, h) of the model
Triples(D) == (0..MaxTK) \X {-1, 1} \X (0..(D.isig - 1))

\* the triple passes the tests of step 6
Passes(D, tr) ==
  ~discrete_reject(b, D, tr[1], tr[2], discrete_step5(D, tr[1], tr[2]).xn0,
                   i_rand_integer(tr[3]), <<>>).ret

\* the integer the triple gives
MapsTo(D, tr) ==
  discrete_step56(D, tr[2], discrete_step5(D, tr[1], tr[2]).i0, i_rand_integer(tr[3])).a

\* (i - mu) * _d, where mu = _imu + _mu / _d and sigma = _sig / _d
Offset(D, i) == (i - D.imu) * D.d - D.mu

\* the integers i with |i - mu| < (MaxTK + 1) * sigma
Integers(D) ==
  {i \in (D.imu - (MaxTK + 1) * D.isig - 1)..(D.imu + (MaxTK + 1) * D.isig + 1) :
     Abs(Offset(D, i)) < (MaxTK + 1) * D.sig}

\* C27: for every accepted (mu, sigma) and integer i exactly one triple
\* (k, s, h) with k >= 0, s = -1 or +1 and 0 <= h < ceil(sigma) passes the
\* tests of step 6 and gives i; for it k * sigma <= s * (i - mu) <
\* (k + 1) * sigma, and i = mu comes with s = +1 and k = 0 only.
C27_OneTriple ==
  /\ \A i \in Integers(par) : \E tr \in Triples(par) : Passes(par, tr) /\ MapsTo(par, tr) = i
  /\ (last.op = "generate") =>
       /\ last.i = loc.s * (loc.i0 + loc.hv) + par.imu
       /\ \A tr \in Triples(par) :
            (Passes(par, tr) /\ MapsTo(par, tr) = last.i) => tr = <<loc.k, loc.s, loc.hv>>
       /\ loc.k * par.sig <= loc.s * Offset(par, last.i)
       /\ loc.s * Offset(par, last.i) < (loc.k + 1) * par.sig
       /\ (Offset(par, last.i) = 0) => (loc.s = 1 /\ loc.k = 0)

\* i = mu = 2 is returned (with s = +1, k = 0, h = 0)
C27_Witness ==
  /\ last.op = "generate" /\ par.imu = 2 /\ par.mu = 0 /\ last.i = 2

\* for mu = -7/3 and sigma = 10/3 the integer -6 is returned with s = -1,
\* k = 1
C27_WitnessNegative ==
  /\ last.op = "generate" /\ par.imu = -2 /\ par.mu = -1 /\ last.i = -6
  /\ loc.s = -1 /\ loc.k = 1

\* a candidate with k = 0, s = -1 and x = 0 is rejected
C27_WitnessZeroRejected ==
  /\ last.op = "continue" /\ last.k = 0 /\ last.s = -1 /\ loc.xn0 = 0 /\ last.hv = 0

(***************************************************************************)
(* The rounding bit of value.  Position 0 is the place of 1/radix; the     *)
(* rounding position trail is the one below the last place the result      *)
(* keeps.                                                                  *)
(***************************************************************************)
\* the rounding position of the u-rand u, whose digits value has drawn
ValueTrail(u) == value_trail(par, value_lead(b, par, u, <<>>).lead)

\* the digits of u, as known, below the place the result keeps last: the
\* fraction num / den of one unit of that place
BelowLast(u) ==
  LET trail == ValueTrail(u)
      num == IF trail <= 0 THEN MagLo(u) * Pow(par.radix, -trail) ELSE MagLo(u)
      den == IF trail <= 0 THEN UDen(u) ELSE UDen(u) * Pow(par.radix, trail)
  IN [num |-> num % den, den |-> den]

\* the rounding bit is 1 (the digit at the rounding position is at least
\* half the radix)
RoundingBitSet(u) == 2 * BelowLast(u).num >= BelowLast(u).den

\* the rounding bit is 1 and no digit u holds below it is other than 0
ExactHalf(u) == 2 * BelowLast(u).num = BelowLast(u).den

\* the fraction digits that reach down to the rounding position
DigitsToRoundingBit(u) ==
  LET trail == ValueTrail(u) IN
  IF trail > 0 THEN 0 ELSE CDiv(-trail, value_xbits(b, par)) + 1

\* C28 as stated: in round-to-nearest mode value reads the rounding bit and,
\* when that bit alone leaves an exact half, draws further digits to see
\* whether a lower bit is other than 0.
C28_AsStated ==
  (last.op = "value" /\ ~last.again /\ last.rnd = "round_to_nearest") =>
    /\ (last.flag * ur["x"].s > 0) <=> RoundingBitSet(ur["x"])
    /\ ExactHalf(ur["x"]) =>
         Len(ur["x"].d) > Max2(Len(last.pre.d), DigitsToRoundingBit(ur["x"]))

\* C28: in round-to-nearest mode value reads the rounding bit, drawing the
\* digits up to the one that holds it if they are not there, and rounds the
\* magnitude up exactly when that bit is 1; it draws no digit below the one
\* that holds the rounding bit, on an exact half neither.
C28_RoundingBit ==
  (last.op = "value" /\ ~last.again /\ last.rnd = "round_to_nearest") =>
    /\ (last.flag * ur["x"].s > 0) <=> RoundingBitSet(ur["x"])
    /\ Len(ur["x"].d) = Max2(Len(last.pre.d), DigitsToRoundingBit(ur["x"]))

\* an exact half as far as the digits go, rounded up, the rounding bit being
\* in a digit that the call drew
C28_Witness ==
  /\ last.op = "value" /\ ~last.again /\ last.rnd = "round_to_nearest"
  /\ ExactHalf(ur["x"]) /\ last.flag * ur["x"].s > 0
  /\ Len(last.drawn) >= 1
  /\ Len(ur["x"].d) = DigitsToRoundingBit(ur["x"])

\* the rounding bit 0 in a digit of base 4, the bit below it being 1
C28_WitnessDown ==
  /\ last.op = "value" /\ ~last.again /\ last.rnd = "round_to_nearest"
  /\ b = 4 /\ ~RoundingBitSet(ur["x"]) /\ BelowLast(ur["x"]).num # 0
  /\ Len(last.drawn) >= 1

(***************************************************************************)
(* New parameters for a sampler that exists.  par.dist is the              *)
(* discrete_normal_dist (its _param and derived integers), par.p the       *)
(* _param of the discrete_normal_distribution that wraps it.  init()       *)
(* assigns the members as it goes and throws where a check fails.          *)
(***************************************************************************)
\* discrete_normal_dist::init(param): _param = param; init();  dist is the
\* sampler as the call leaves it, thrown or not
discrete_init_param(base, D, p) ==
  LET v == discrete_derived(p)
      \* _param, _imu and _isig are assigned before the first check
      D1 == [D EXCEPT !.param = p, !.imu = v.imu, !.isig = v.isig]
      \* _sig, _mu and _d after it
      D2 == [D1 EXCEPT !.sig = v.sig, !.mu = v.mu, !.d = v.d]
  IN
  IF ~(/\ CDiv(p.mu_den, v.l) <= CDiv(maxll, p.sigma_num)
       /\ Abs(v.fmu_num) <= CDiv(maxll, CDiv(p.sigma_den, v.l))
       /\ CDiv(p.mu_den, v.l) <= CDiv(maxll, p.sigma_den))
  THEN [ok |-> FALSE, err |-> "sigma or mu overflow", dist |-> D1]
  ELSE IF ~(v.isig <= CDiv(maxll, v.d))
  THEN [ok |-> FALSE, err |-> "sigma or mu overflow", dist |-> D2]
  ELSE IF ~(v.isig <= CDiv(maxint, kmax))
  THEN [ok |-> FALSE, err |-> "possible overflow a", dist |-> D2]
  ELSE IF ~(Abs(v.imu) <= maxint - v.isig * kmax)
  THEN [ok |-> FALSE, err |-> "possible overflow b", dist |-> D2]
  ELSE IF ~(Max2(2, v.sig) <= CDiv(maxll, ToInt(base * kmax)))
  THEN [ok |-> FALSE, err |-> "possible overflow c", dist |-> D2]
  ELSE [ok |-> TRUE, err |-> "", dist |-> D2]

\* parameter sets (param_type values): accepted ones, sigma = 100 (error a),
\* mu = 500 with sigma = 10 (error b), mu = 1/101 with sigma = 101/11
\* (error c)
SParams ==
  DParams \cup
  {[mu_num |-> 0, mu_den |-> 1, sigma_num |-> 100, sigma_den |-> 1],
   [mu_num |-> 500, mu_den |-> 1, sigma_num |-> 10, sigma_den |-> 1],
   [mu_num |-> 1, mu_den |-> 101, sigma_num |-> 101, sigma_den |-> 11]}

\* a distribution constructed from accepted parameters
InitSet ==
  /\ b \in Bases
  /\ ur = <<>>
  /\ h = i_rand_construct
  /\ pc = "idle"
  /\ loc = <<>>
  /\ \E p \in DParams : par = [dist |-> discrete_init(b, p).dist, p |-> p]
  /\ last = Idle

\* discrete_normal_dist::init(param) on the sampler
SInit ==
  /\ \E p \in SParams :
       LET r == discrete_init_param(b, par.dist, p) IN
       /\ par' = [par EXCEPT !.dist = r.dist]
       /\ last' = [op |-> "init", arg |-> p, pre |-> par, ok |-> r.ok, err |-> r.err]
  /\ UNCHANGED <<b, ur, h, pc, loc>>

\* discrete_normal_distribution::param(param):
\* _param = param; _normal_dist.init(_param);
SParam ==
  /\ \E p \in SParams :
       LET r == discrete_init_param(b, par.dist, p) IN
       /\ par' = [dist |-> r.dist, p |-> p]
       /\ last' = [op |-> "set_param", arg |-> p, pre |-> par, ok |-> r.ok, err |-> r.err]
  /\ UNCHANGED <<b, ur, h, pc, loc>>

\* discrete_normal_distribution::param() and discrete_normal_dist::param()
SGetParam ==
  /\ last' = [op |-> "param", ret |-> par.p, inner |-> par.dist.param]
  /\ UNCHANGED <<b, ur, h, pc, loc, par>>

\* sampling: steps 1 and 2 pass k on, the sign is s, and generate computes
\* xn0 and i0 from the derived integers
SCandidate ==
  /\ \E k \in 0..2, s \in {-1, 1} :
       LET c == discrete_step5(par.dist, k, s) IN
       last' = [op |-> "candidate", k |-> k, s |-> s, i0 |-> c.i0, xn0 |-> c.xn0,
                isig |-> par.dist.isig]
  /\ UNCHANGED <<b, ur, h, pc, loc, par>>

NextSet == SInit \/ SParam \/ SGetParam \/ SCandidate

SpecSet == InitSet /\ [][NextSet]_vars

\* C29: when init(param) or param(p) fails with an overflow error, the
\* stored parameters and the derived integers are as before the call.
C29_LeftAsBefore ==
  (last.op \in {"init", "set_param"} /\ ~last.ok /\ last.err \in OverflowErrors) =>
    par = last.pre

\* the sampler holds derived integers that no constructor accepts: the
\* candidates are drawn for ceil(sigma) = 100
C29_SamplesRejectedParameters ==
  /\ last.op = "candidate" /\ last.isig = 100
  /\ ~discrete_init(b, par.dist.param).ok

(***************************************************************************)
(* The loop of u_rand::less_than(g, u0, c, v, h), turn by turn: compare on *)
(* the bounds that h gives, return on a result other than 0, refine h      *)
(* otherwise.  ur["x"] is *this, par holds u0, c and v, loc counts the     *)
(* turns.                                                                  *)
(***************************************************************************)
\* mutant: the upper bound is taken one past h.max()
less_than_bounds_open(u0, c, hh) ==
  [u1 |-> u0 + i_rand_min(hh) * c, u2 |-> u0 + (i_rand_max(hh) + 1) * c]

\* compare(g, u0 + h.min()*c, u0 + h.max()*c, v): its arguments u1 and u2
less_than_bounds(u0, c, hh) ==
  [u1 |-> u0 + i_rand_min(hh) * c, u2 |-> u0 + i_rand_max(hh) * c]

\* the u-rands and i-rands the call may find: any sign, integer part 0 or 1
\* and up to MaxDigits digits; any range that init(g, m) leaves, as it is or
\* moved down by 2
OXStates(base) ==
  {[s |-> sg, n |-> n, d |-> d] :
     sg \in {-1, 1}, n \in 0..1,
     d \in UNION {TapesOfLen(base, len) : len \in 0..MaxDigits}}

OHStates(base) ==
  LET hs == {run.r.h : run \in UNION {IRandInitRuns[base][m] : m \in 1..MaxM}} IN
  hs \cup {i_rand_add(hh, -2) : hh \in hs}

InitLoop ==
  /\ b \in Bases
  /\ ur \in [{"x"} -> OXStates(b)]
  /\ h \in OHStates(b)
  /\ pc = "idle"
  /\ loc = [turns |-> 0]
  /\ par \in LessArgs
  /\ last = Idle

\* x.less_than(g, u0, c, v, h) is called
OStart ==
  /\ pc = "idle"
  /\ pc' = "compare"
  /\ loc' = [turns |-> 0]
  /\ last' = Idle
  /\ UNCHANGED <<b, ur, h, par>>

\* int r = compare(g, u0 + h.min()*c, u0 + h.max()*c, v);
\* if (r < 0) return true; if (r > 0) return false;
OCompare ==
  /\ pc = "compare"
  /\ LET bd == less_than_bounds(par.u0, par.c, h) IN
     \E t \in ValidTapes(b, LAMBDA tt : u_rand_compare(b, ur["x"], bd.u1, bd.u2, par.v, tt),
                         <<>>, MaxLDraw) :
       LET r == u_rand_compare(b, ur["x"], bd.u1, bd.u2, par.v, t) IN
       /\ ur' = [ur EXCEPT !["x"] = r.u]
       /\ last' = [op |-> "compare", u1 |-> bd.u1, u2 |-> bd.u2, ret |-> r.ret,
                   drawn |-> t, entropy |-> h.l]
       /\ pc' = IF r.ret = 0 THEN "refine" ELSE "idle"
  /\ UNCHANGED <<b, h, loc, par>>

\* h.refine(g);
ORefine ==
  /\ pc = "refine"
  /\ \E t \in ValidTapes(b, LAMBDA tt : i_rand_refine(b, h, tt), <<>>, 1) :
       /\ h' = i_rand_refine(b, h, t).h
       /\ last' = [op |-> "refine", entropy |-> h.l, drawn |-> t, before |-> last.drawn]
  /\ pc' = "compare"
  /\ loc' = [turns |-> loc.turns + 1]
  /\ UNCHANGED <<b, ur, par>>

NextLoop == OStart \/ OCompare \/ ORefine

SpecLoop == InitLoop /\ [][NextLoop]_vars

\* C30: compare does not return 0 when u1 = u2, so less_than(g, u0, c, v, h)
\* does not call h.refine on an i-rand of entropy 0: a turn of its loop
\* returns or draws a digit (of the u-rand or of h).
C30_NoRefineAtZero ==
  /\ (last.op = "compare" /\ last.u1 = last.u2) => last.ret # 0
  /\ (last.op = "compare" /\ last.entropy = 0) => (last.u1 = last.u2 /\ pc = "idle")
  /\ (last.op = "refine") => (last.entropy > 0 /\ Len(last.drawn) = 1)

\* compare with u1 = u2 on a negative u-rand, decided after two digits drawn
\* in the call
C30_Witness ==
  /\ last.op = "compare" /\ last.u1 = last.u2 /\ last.entropy = 0
  /\ Len(last.drawn) = 2 /\ ur["x"].s = -1 /\ last.ret # 0

\* a second turn: compare returned 0 without a digit and refine drew one
C30_WitnessRefine ==
  /\ last.op = "refine" /\ last.before = <<>> /\ loc.turns = 2

====
